---- MODULE Spec2Model ----
(***************************************************************************)
(* Plate-hydration protocol and client orchestrator of the AutoHaus C-OS   *)
(* frontend.  The repository carries two OrchestratorProvider              *)
(* implementations; one of them is mounted by a build:                     *)
(*   "validated" - the zod-gated provider (src/unnamed/part_003) together  *)
(*                 with its CommandCenter page (pages/CommandCenter.tsx);  *)
(*   "demo"      - the demo provider (contexts/OrchestratorContext.tsx)    *)
(*                 together with its CommandCenter (App.tsx).              *)
(* The variable build records which provider is mounted.  The Action      *)
(* Center page, the governance queue of proposals, is modelled next to     *)
(* them: build "actionCenter" is pages/ActionCenter.tsx, build             *)
(* "actionCenterDelayed" the variant of src/unnamed/part_004, which removes *)
(* a settled card after a delay.                                           *)
(***************************************************************************)
EXTENDS Integers, Sequences, FiniteSets, TLC

VARIABLES
    build,          \* which OrchestratorProvider is mounted
    mode,           \* useState("STANDARD") of the mounted provider
    clock,          \* Date.now(), non-decreasing
    socket,         \* ws.readyState of the provider's WebSocket
    fx,             \* observable effects of the handler that ran last
    \* ---- validated provider (part_003) ----
    activeSkin,     \* useState<SkinType>("SUPER_ADMIN")
    latestPlate,    \* useState<PlatePayload | null>(null): <<>> is null
    isConnected,    \* useState(false)
    liveMessages,   \* useState<ChatMessage[]> of the validated provider
    liveInput,      \* CommandCenter's input buffer (pages/CommandCenter.tsx)
    \* ---- demo provider (OrchestratorContext.tsx) ----
    messages,       \* useState<ChatMessage[]>
    input,          \* useState("")
    plate,          \* useState<string | null>(null): <<>> is null
    processing,     \* useState(false)
    wsState,        \* useState("CONNECTING")
    stagedFiles,    \* useState<StagedFile[]>([])
    replyTimers,    \* pending setTimeout callbacks of sendMessage
    anomalyTimers,  \* pending setTimeout callbacks of handleAnomalyDecision
    \* ---- local state of the plate the demo CommandCenter renders ----
    selected,       \* CollisionPlate: useState<number | null>(null), 0 is null
    state,          \* AnomalyPlate: useState<string | null>(null), "" is null
    overrideText,   \* AnomalyPlate: useState("")
    showOverride,   \* AnomalyPlate: useState(false)
    \* ---- Action Center (pages/ActionCenter.tsx, part_004) ----
    queue,          \* useState<HitlEvent[]>([]): the event ids of the cards
    loading,        \* useState(true)
    approvingId,    \* useState<string | null>(null), "" is null
    rejectingId,    \* useState<string | null>(null), "" is null
    requests,       \* fetch calls in flight
    removals,       \* pending setTimeout callbacks of a settled card (part_004)
    toasts,         \* useState<ToastMessage[]>([]): the type of each toast
    settled         \* the events a request of which has succeeded

vars == <<build, mode, clock, socket, fx, activeSkin, latestPlate, isConnected, liveMessages,
          liveInput, messages, input, plate, processing, wsState, stagedFiles,
          replyTimers, anomalyTimers, selected, state, overrideText, showOverride,
          queue, loading, approvingId, rejectingId, requests, removals, toasts, settled>>

acVars == <<queue, loading, approvingId, rejectingId, requests, removals, toasts, settled>>
plateVars == <<selected, state, overrideText, showOverride>>
liveVars == <<activeSkin, latestPlate, isConnected, liveMessages, liveInput>>
demoVars == <<messages, input, plate, processing, wsState, stagedFiles,
              replyTimers, anomalyTimers>>

-----------------------------------------------------------------------------
(* Bounds of the model.                                                    *)
MaxClock == 1          \* Date.now() takes the values 0..MaxClock
MaxMessages == 3       \* a transcript this long takes no further send or chat frame
MaxSideMessages == 2   \* the same, for the plate and the staging specification
MaxPick == 2           \* files selected in one stageFiles call (1..MaxPick)

-----------------------------------------------------------------------------
(* JSON values as JSON.parse yields them.  t is the JavaScript type, s, n  *)
(* and b carry the value of a string, a number and a boolean.              *)
JUndef == [t |-> "undefined", s |-> "", n |-> 0, b |-> FALSE]
JNull == [t |-> "null", s |-> "", n |-> 0, b |-> FALSE]
JStr(str) == [t |-> "string", s |-> str, n |-> 0, b |-> FALSE]
JNum(num) == [t |-> "number", s |-> "", n |-> num, b |-> FALSE]
JBool(bool) == [t |-> "boolean", s |-> "", n |-> 0, b |-> bool]
JObj == [t |-> "object", s |-> "", n |-> 0, b |-> FALSE]
JArr == [t |-> "array", s |-> "", n |-> 0, b |-> FALSE]

\* JavaScript truthiness (the operand of && and ||).
Truthy(v) ==
    CASE v.t = "undefined" -> FALSE
      [] v.t = "null" -> FALSE
      [] v.t = "string" -> v.s # ""
      [] v.t = "number" -> v.n # 0
      [] v.t = "boolean" -> v.b
      [] OTHER -> TRUE

\* a || b
JOr(a, b) == IF Truthy(a) THEN a ELSE b

\* v === "str"
IsStr(v, str) == v.t = "string" /\ v.s = str

-----------------------------------------------------------------------------
(* Server frames.  A frame is the object JSON.parse returns, as a record   *)
(* over FrameKeys; an absent key holds JUndef.  The members of             *)
(* data.strategy are the keys skin, urgency, vibration and overlay; they   *)
(* are present only when data.strategy is an object.                       *)
FrameKeys ==
    {"type", "plate_id", "intent", "confidence", "entities", "target_entity",
     "suggested_action", "strategy", "skin", "urgency", "vibration", "overlay",
     "timestamp", "dataset", "vin", "lender_name", "principal_amount",
     "interest_rate", "maturity_date", "make", "model", "status", "target_id",
     "message", "text", "entity", "action", "component"}

StrategyKeys == {"skin", "urgency", "vibration", "overlay"}

EmptyFrame == [k \in FrameKeys |-> JUndef]

\* The frame f with key k set to v.
WithField(f, k, v) ==
    [j \in FrameKeys |->
        IF j = k THEN v
        ELSE IF k = "strategy" /\ v.t # "object" /\ j \in StrategyKeys THEN JUndef
        ELSE f[j]]

-----------------------------------------------------------------------------
(* zod schemas.  A schema is the sequence of its shape's keys in           *)
(* declaration order; parent names the enclosing z.object of a nested key. *)
Field(k, kind, parent) == [key |-> k, kind |-> kind, parent |-> parent]

FinancePlateSchema ==
    << Field("vin", "string", ""),
       Field("lender_name", "string", ""),
       Field("principal_amount", "number", ""),
       Field("interest_rate", "number_optional", ""),
       Field("maturity_date", "string_optional", "") >>

InventoryPlateSchema ==
    << Field("vin", "string", ""),
       Field("make", "string_optional", ""),
       Field("model", "string_optional", ""),
       Field("status", "string", "") >>

GenericPlateSchema ==
    << Field("type", "string", ""),
       Field("plate_id", "string", ""),
       Field("intent", "string", ""),
       Field("confidence", "number", ""),
       Field("entities", "record", ""),
       Field("target_entity", "string", ""),
       Field("suggested_action", "string", ""),
       Field("strategy", "object", ""),
       Field("skin", "string", "strategy"),
       Field("urgency", "number", "strategy"),
       Field("vibration", "boolean", "strategy"),
       Field("overlay", "string_nullable", "strategy"),
       Field("timestamp", "string", ""),
       Field("dataset", "array", "") >>

\* The JavaScript types a zod kind accepts.
Accepts(kind) ==
    CASE kind = "string" -> {"string"}
      [] kind = "number" -> {"number"}
      [] kind = "boolean" -> {"boolean"}
      [] kind = "record" -> {"object"}
      [] kind = "object" -> {"object"}
      [] kind = "array" -> {"array"}
      [] kind = "string_nullable" -> {"string", "null"}
      [] kind = "number_optional" -> {"number", "undefined"}
      [] kind = "string_optional" -> {"string", "undefined"}

\* The type name zod reports as expected.
Expected(kind) ==
    CASE kind \in {"string", "string_nullable", "string_optional"} -> "string"
      [] kind \in {"number", "number_optional"} -> "number"
      [] kind = "boolean" -> "boolean"
      [] kind \in {"record", "object"} -> "object"
      [] kind = "array" -> "array"

\* The message of zod's invalid_type issue.
IssueMessage(kind, v) ==
    IF v.t = "undefined" THEN "Required"
    ELSE "Expected " \o Expected(kind) \o ", received " \o v.t

\* Is the field parsed at all: a nested field is parsed only when its
\* enclosing object passed the object check.
Parsed(fld, data) == fld.parent = "" \/ data[fld.parent].t = "object"

RECURSIVE Issues(_, _)
Issues(schema, data) ==
    IF schema = <<>> THEN <<>>
    ELSE LET fld == Head(schema)
             rest == Issues(Tail(schema), data)
         IN IF Parsed(fld, data) /\ data[fld.key].t \notin Accepts(fld.kind)
            THEN <<[path |-> fld.key, message |-> IssueMessage(fld.kind, data[fld.key])]>> \o rest
            ELSE rest

\* schema.safeParse(payload)
safeParse(schema, payload) ==
    LET iss == Issues(schema, payload)
    IN [success |-> iss = <<>>, issues |-> iss]

\* validatePlatePayload without its specialized schemas: the generic
\* structural check only.
validatePlatePayload_GenericOnly(plateId, payload) ==
    safeParse(GenericPlateSchema, payload)

\* validatePlatePayload(plateId, payload): plateId is the JSON value of
\* data.plate_id, compared by the switch with ===.
validatePlatePayload(plateId, payload) ==
    LET baseResult == safeParse(GenericPlateSchema, payload)
    IN IF ~baseResult.success THEN baseResult
       ELSE IF IsStr(plateId, "FINANCE_NOTE") \/ IsStr(plateId, "FINANCE_CHART")
            THEN safeParse(FinancePlateSchema, payload)
       ELSE IF IsStr(plateId, "INVENTORY_TABLE")
            THEN safeParse(InventoryPlateSchema, payload)
       ELSE baseResult

\* validationResult.error?.issues[0]?.message || fallback
FirstIssueMessage(result, fallback) ==
    IF result.issues # <<>> /\ result.issues[1].message # ""
    THEN result.issues[1].message
    ELSE fallback

-----------------------------------------------------------------------------
(* The frames the server is taken to send.                                 *)
PlateIds == {"FINANCE_NOTE", "FINANCE_CHART", "INVENTORY_TABLE", "TWIN_VIEW"}
Skins == {"SUPER_ADMIN", "FIELD_DIAGNOSTIC"}
Urgencies == {0, 3, 8, 9, 10}

\* The fields a plate id's specialized schema asks for.
DomainFields(plateId, f) ==
    IF plateId \in {"FINANCE_NOTE", "FINANCE_CHART"}
    THEN [f EXCEPT !["vin"] = JStr("WBA123"),
                   !["lender_name"] = JStr("NextGear"),
                   !["principal_amount"] = JNum(28400)]
    ELSE IF plateId = "INVENTORY_TABLE"
    THEN [f EXCEPT !["vin"] = JStr("WBA123"), !["status"] = JStr("AVAILABLE")]
    ELSE f

\* A MOUNT_PLATE frame with every generic field present and well typed.
GenericFrame(plateId, skin, urgency, vibration) ==
    [EmptyFrame EXCEPT
        !["type"] = JStr("MOUNT_PLATE"),
        !["plate_id"] = JStr(plateId),
        !["intent"] = JStr("FINANCE"),
        !["confidence"] = JNum(1),
        !["entities"] = JObj,
        !["target_entity"] = JStr("ALL_ENTITIES"),
        !["suggested_action"] = JStr("Review margin"),
        !["strategy"] = JObj,
        !["skin"] = JStr(skin),
        !["urgency"] = JNum(urgency),
        !["vibration"] = JBool(vibration),
        !["overlay"] = JNull,
        !["timestamp"] = JStr("2026-02-25T09:41:00Z"),
        !["dataset"] = JArr]

\* The example frame of the specification: FINANCE_CHART, generic fields
\* only, skin SUPER_ADMIN, urgency 3, vibration false.
ExampleFrame == GenericFrame("FINANCE_CHART", "SUPER_ADMIN", 3, FALSE)

\* Well-formed frames: every strategy on one plate id, one strategy on the
\* other plate ids.
WellFormedFrames ==
    { DomainFields("FINANCE_NOTE", GenericFrame("FINANCE_NOTE", sk, u, v)) :
        sk \in Skins, u \in Urgencies, v \in BOOLEAN } \cup
    { DomainFields(p, GenericFrame(p, "SUPER_ADMIN", 3, FALSE)) : p \in PlateIds }

\* The keys GenericPlateSchema requires, the type tag excepted.
GenericKeys ==
    {"plate_id", "intent", "confidence", "entities", "target_entity",
     "suggested_action", "strategy", "skin", "urgency", "vibration", "overlay",
     "timestamp", "dataset"}

\* A value of another type than the key's.
WrongType(k) ==
    IF k \in {"confidence", "urgency", "principal_amount", "interest_rate"}
    THEN JStr("x") ELSE JNum(7)

\* One generic field missing, mistyped, or (strategy) null.
GenericDefects ==
    { <<k, JUndef>> : k \in GenericKeys } \cup
    { <<k, WrongType(k)>> : k \in GenericKeys } \cup
    { <<"strategy", JNull>> }

\* One field of the finance schema missing or mistyped.
FinanceDefects ==
    { <<"vin", JUndef>>, <<"lender_name", JUndef>>, <<"principal_amount", JUndef>>,
      <<"principal_amount", JStr("x")>>, <<"interest_rate", JNull>> }

\* One field of the inventory schema missing or mistyped.
InventoryDefects == { <<"vin", JNum(7)>>, <<"status", JUndef>> }

\* Differences that leave a frame valid.
Harmless ==
    { <<"overlay", JStr("HUD")>>, <<"skin", JStr("NEON")>>, <<"interest_rate", JNum(5)>>,
      <<"target_id", JStr("VIN-1")>> }

DefectiveFrame(p, d) ==
    WithField(DomainFields(p, GenericFrame(p, "FIELD_DIAGNOSTIC", 9, TRUE)), d[1], d[2])

VariantFrames ==
    { DefectiveFrame("FINANCE_NOTE", d) : d \in GenericDefects \cup FinanceDefects \cup Harmless } \cup
    { DefectiveFrame("FINANCE_CHART", <<"principal_amount", JUndef>>),
      DefectiveFrame("TWIN_VIEW", <<"vin", JUndef>>),
      WithField(DefectiveFrame("TWIN_VIEW", <<"intent", JUndef>>), "target_id", JStr("VIN-1")) } \cup
    { DefectiveFrame("INVENTORY_TABLE", d) : d \in InventoryDefects }

MountFrames == WellFormedFrames \cup VariantFrames \cup {ExampleFrame}

ChatFrames ==
    { [EmptyFrame EXCEPT !["type"] = JStr("SYSTEM"), !["message"] = JStr("Ledger synced"),
                         !["intent"] = JStr("SYSTEM"), !["entity"] = JStr("CARBON_LLC")],
      [EmptyFrame EXCEPT !["type"] = JStr("CHAT_RESPONSE"), !["text"] = JStr("Done"),
                         !["target_entity"] = JStr("KAMM_LLC"), !["confidence"] = JNum(1)] }

GreetingFrame == [EmptyFrame EXCEPT !["type"] = JStr("greeting"), !["text"] = JStr("Welcome back")]

Frames == MountFrames \cup ChatFrames \cup {GreetingFrame}

Event(kind, data) == [kind |-> kind, data |-> data]

\* What a message event carries: text that JSON.parse rejects, the JSON
\* text null, or an object.
Events ==
    { Event("garbage", EmptyFrame), Event("null", EmptyFrame) } \cup
    { Event("object", f) : f \in Frames }

-----------------------------------------------------------------------------
(* Effects of the handler that ran last (NoFx for a handler that only      *)
(* updates state): its name and input, the number of                       *)
(* render-error reports it attempted (fetch calls) with the last report's  *)
(* body, the sensory feedback it triggered, the frames it transmitted over *)
(* the socket, whether it replaced a plate that was active, and the files  *)
(* it was given to stage.                                                  *)
NoReport == [plate_type |-> JUndef, reason |-> "", target_id |-> JUndef]

NoFx ==
    [op |-> "none", ev |-> Event("none", EmptyFrame), reports |-> 0, report |-> NoReport,
     vibrate |-> FALSE, tone |-> FALSE, sent |-> <<>>, replaced |-> FALSE,
     picked |-> <<>>, decision |-> "", canVibrate |-> FALSE,
     toneFailed |-> FALSE, reportFailed |-> FALSE, eid |-> "", ok |-> FALSE]

Fx(op) == [NoFx EXCEPT !.op = op]

-----------------------------------------------------------------------------
(* Typed text is a sequence of one-character strings.                      *)
RECURSIVE Join(_)
Join(cs) == IF cs = <<>> THEN "" ELSE Head(cs) \o Join(Tail(cs))

RECURSIVE TrimStart(_)
TrimStart(cs) ==
    IF cs # <<>> /\ Head(cs) = " " THEN TrimStart(Tail(cs)) ELSE cs

RECURSIVE TrimEnd(_)
TrimEnd(cs) ==
    IF cs # <<>> /\ cs[Len(cs)] = " " THEN TrimEnd(SubSeq(cs, 1, Len(cs) - 1)) ELSE cs

\* String.prototype.trim
Trim(cs) == TrimEnd(TrimStart(cs))

(* A transcript entry.  text, intent and entity are JSON values; site      *)
(* names the statement that created the entry.                             *)
Message(id, isBot, text, intent, entity, attachments, site) ==
    [id |-> id, isBot |-> isBot, text |-> text, intent |-> intent,
     entity |-> entity, attachments |-> attachments, site |-> site]

-----------------------------------------------------------------------------
(* The validated provider (src/unnamed/part_003) and its CommandCenter.    *)

\* The texts a user of the validated CommandCenter types.
LiveTexts == { <<>>, <<" ">>, <<"h", "i">> }

\* The quick-command buttons of the validated CommandCenter.
LiveQuickCommands == {"Show Financials", "Inventory Status", "Check Anomalies"}

\* The record setLatestPlate receives: the frame, and the two members the
\* failure branch adds.
PlateRecord(data, isCorrupt, validationError) ==
    [data |-> data, is_corrupt |-> isCorrupt, validation_error |-> validationError]

\* The feedback engine sounding the tone only for an urgent directive that
\* also asks for vibration, with a threshold of 8.
triggerSensoryFeedback_Coupled(data, canVibrate) ==
    [vibrate |-> Truthy(data["vibration"]) /\ canVibrate,
     tone |-> /\ data["urgency"].t = "number" /\ data["urgency"].n >= 8
              /\ Truthy(data["vibration"])]

\* triggerSensoryFeedback(strategy): which feedback paths are entered.
\* canVibrate is 'vibrate' in navigator.
triggerSensoryFeedback(data, canVibrate) ==
    [vibrate |-> Truthy(data["vibration"]) /\ canVibrate,
     tone |-> data["urgency"].t = "number" /\ data["urgency"].n >= 9]

\* The guard of the plate branch of ws.onmessage.
IsMountDirective(data) == IsStr(data["type"], "MOUNT_PLATE") /\ Truthy(data["strategy"])

\* The guard of the chat branch of ws.onmessage.
IsChatFrame(data) == IsStr(data["type"], "SYSTEM") \/ IsStr(data["type"], "CHAT_RESPONSE")

\* Does the event carry a frame of the chat branch.
IsChatEvent(ev) == ev.kind = "object" /\ IsChatFrame(ev.data)

\* The failed branch switching to the skin the corrupt frame declares.
LiveMountFailed_SetsSkin(ev, result) ==
    LET data == ev.data
        reason == FirstIssueMessage(result, "Schema mismatch")
    IN /\ latestPlate' = <<PlateRecord(data, TRUE, FirstIssueMessage(result, "Validation failed"))>>
       /\ activeSkin' = IF data["skin"].t = "string" THEN data["skin"].s ELSE activeSkin
       /\ \E fetchFails \in BOOLEAN :
            fx' = [Fx("onmessage") EXCEPT
                    !.ev = ev, !.reports = 1, !.replaced = (latestPlate # <<>>),
                    !.reportFailed = fetchFails,
                    !.report = [plate_type |-> JOr(data["plate_id"], JStr("UNKNOWN")),
                                reason |-> reason,
                                target_id |-> JOr(data["target_id"], JStr("SYSTEM_ORPHAN"))]]
       /\ UNCHANGED liveMessages

\* ws.onmessage, plate branch, validation failed.
LiveMountFailed(ev, result) ==
    LET data == ev.data
        reason == FirstIssueMessage(result, "Schema mismatch")
    IN /\ latestPlate' = <<PlateRecord(data, TRUE, FirstIssueMessage(result, "Validation failed"))>>
       /\ \E fetchFails \in BOOLEAN :
            \* a rejected fetch is logged by its .catch callback
            fx' = [Fx("onmessage") EXCEPT
                    !.ev = ev, !.reports = 1, !.replaced = (latestPlate # <<>>),
                    !.reportFailed = fetchFails,
                    !.report = [plate_type |-> JOr(data["plate_id"], JStr("UNKNOWN")),
                                reason |-> reason,
                                target_id |-> JOr(data["target_id"], JStr("SYSTEM_ORPHAN"))]]
       /\ UNCHANGED <<activeSkin, liveMessages>>

\* The passed branch without its setSkin call.
LiveMountPassed_KeepsSkin(ev, canVibrate) ==
    LET data == ev.data
        feedback == triggerSensoryFeedback(data, canVibrate)
    IN /\ latestPlate' = <<PlateRecord(data, FALSE, "")>>
       /\ \E audioFails \in BOOLEAN :
            fx' = [Fx("onmessage") EXCEPT
                    !.ev = ev, !.vibrate = feedback.vibrate, !.tone = feedback.tone,
                    !.toneFailed = (feedback.tone /\ audioFails),
                    !.canVibrate = canVibrate, !.replaced = (latestPlate # <<>>)]
       /\ UNCHANGED <<activeSkin, liveMessages>>

\* The passed branch with the tone built outside a try block: a failure
\* reaches the handler's catch before setLatestPlate runs.
LiveMountPassed_ToneUncaught(ev, canVibrate) ==
    LET data == ev.data
        feedback == triggerSensoryFeedback(data, canVibrate)
    IN /\ activeSkin' = data["skin"].s
       /\ \E audioFails \in BOOLEAN :
            /\ latestPlate' = IF feedback.tone /\ audioFails
                              THEN latestPlate ELSE <<PlateRecord(data, FALSE, "")>>
            /\ fx' = [Fx("onmessage") EXCEPT
                        !.ev = ev, !.vibrate = feedback.vibrate, !.tone = feedback.tone,
                        !.toneFailed = (feedback.tone /\ audioFails),
                        !.canVibrate = canVibrate, !.replaced = (latestPlate # <<>>)]
       /\ UNCHANGED liveMessages

\* ws.onmessage, plate branch, validation passed.  Building or playing the
\* tone may fail (audioFails); the try block around it discards the failure.
LiveMountPassed(ev, canVibrate) ==
    LET data == ev.data
        feedback == triggerSensoryFeedback(data, canVibrate)
    IN /\ activeSkin' = data["skin"].s
       /\ latestPlate' = <<PlateRecord(data, FALSE, "")>>
       /\ \E audioFails \in BOOLEAN :
            fx' = [Fx("onmessage") EXCEPT
                    !.ev = ev, !.vibrate = feedback.vibrate, !.tone = feedback.tone,
                    !.toneFailed = (feedback.tone /\ audioFails),
                    !.canVibrate = canVibrate, !.replaced = (latestPlate # <<>>)]
       /\ UNCHANGED liveMessages

\* ws.onmessage, chat branch.
LiveChat(ev) ==
    LET data == ev.data
    IN /\ liveMessages' = Append(liveMessages,
            Message(clock, TRUE, JOr(data["message"], data["text"]), data["intent"],
                    JOr(data["target_entity"], data["entity"]), <<>>, "chat"))
       /\ fx' = [Fx("onmessage") EXCEPT !.ev = ev]
       /\ UNCHANGED <<activeSkin, latestPlate>>

\* ws.onmessage with a catch block that resets the active plate.
LiveOnMessage_CatchClearsPlate(ev, canVibrate) ==
    /\ build = "validated"
    /\ socket = "OPEN"
    /\ IF ev.kind # "object"
       THEN /\ fx' = [Fx("onmessage") EXCEPT !.ev = ev]
            /\ latestPlate' = <<>>
            /\ UNCHANGED <<activeSkin, liveMessages>>
       ELSE IF IsMountDirective(ev.data)
       THEN LET validationResult == validatePlatePayload(ev.data["plate_id"], ev.data)
            IN IF ~validationResult.success
               THEN LiveMountFailed(ev, validationResult)
               ELSE LiveMountPassed(ev, canVibrate)
       ELSE IF IsChatFrame(ev.data)
       THEN LiveChat(ev)
       ELSE /\ fx' = [Fx("onmessage") EXCEPT !.ev = ev]
            /\ UNCHANGED <<activeSkin, latestPlate, liveMessages>>
    /\ UNCHANGED <<acVars, build, mode, clock, socket, isConnected, liveInput, demoVars, plateVars>>

\* ws.onmessage of the validated provider.
LiveOnMessage(ev, canVibrate) ==
    /\ build = "validated"
    /\ socket = "OPEN"
    /\ IF ev.kind # "object"
       THEN \* JSON.parse throws, or data.type throws on null: caught and logged
            /\ fx' = [Fx("onmessage") EXCEPT !.ev = ev]
            /\ UNCHANGED <<activeSkin, latestPlate, liveMessages>>
       ELSE IF IsMountDirective(ev.data)
       THEN LET validationResult == validatePlatePayload(ev.data["plate_id"], ev.data)
            IN IF ~validationResult.success
               THEN LiveMountFailed(ev, validationResult)
               ELSE LiveMountPassed(ev, canVibrate)
       ELSE IF IsChatFrame(ev.data)
       THEN LiveChat(ev)
       ELSE /\ fx' = [Fx("onmessage") EXCEPT !.ev = ev]
            /\ UNCHANGED <<activeSkin, latestPlate, liveMessages>>
    /\ UNCHANGED <<acVars, build, mode, clock, socket, isConnected, liveInput, demoVars, plateVars>>

\* ws.onopen of the validated provider.
LiveOnOpen ==
    /\ build = "validated"
    /\ socket = "CONNECTING"
    /\ socket' = "OPEN"
    /\ isConnected' = TRUE
    /\ fx' = NoFx
    /\ UNCHANGED <<acVars, build, mode, clock, activeSkin, latestPlate, liveMessages, liveInput, demoVars, plateVars>>

\* ws.onclose of the validated provider.
LiveOnClose ==
    /\ build = "validated"
    /\ socket \in {"CONNECTING", "OPEN"}
    /\ socket' = "CLOSED"
    /\ isConnected' = FALSE
    /\ fx' = NoFx
    /\ UNCHANGED <<acVars, build, mode, clock, activeSkin, latestPlate, liveMessages, liveInput, demoVars, plateVars>>

\* sendMessage(text) without its test of isConnected.
LiveSendMessage_NoLiveCheck(op, text) ==
    /\ liveMessages' = Append(liveMessages,
           Message(clock, FALSE, JStr(text), JUndef, JUndef, <<>>, "human"))
    /\ fx' = [Fx(op) EXCEPT !.sent = <<[message |-> text]>>]

\* sendMessage(text) of the validated provider, called by the handler op;
\* text is a string.
LiveSendMessage(op, text) ==
    IF isConnected
    THEN /\ liveMessages' = Append(liveMessages,
                Message(clock, FALSE, JStr(text), JUndef, JUndef, <<>>, "human"))
         /\ fx' = [Fx(op) EXCEPT !.sent = <<[message |-> text]>>]
    ELSE /\ UNCHANGED liveMessages
         /\ fx' = Fx(op)

\* onChange of the validated CommandCenter's input.
LiveSetInput(cs) ==
    /\ build = "validated"
    /\ liveInput' = cs
    /\ fx' = NoFx
    /\ UNCHANGED <<acVars, build, mode, clock, socket, activeSkin, latestPlate, isConnected,
                   liveMessages, demoVars, plateVars>>

\* handleSend of the validated CommandCenter (form submit).
LiveHandleSend ==
    /\ build = "validated"
    /\ IF Trim(liveInput) = <<>> \/ ~isConnected
       THEN /\ fx' = Fx("handleSend")
            /\ UNCHANGED <<liveMessages, liveInput>>
       ELSE /\ LiveSendMessage("handleSend", Join(liveInput))
            /\ liveInput' = <<>>
    /\ UNCHANGED <<acVars, build, mode, clock, socket, activeSkin, latestPlate, isConnected, demoVars, plateVars>>

\* A quick-command button of the validated CommandCenter.
LiveQuickCommand(cmd) ==
    /\ build = "validated"
    /\ LiveSendMessage("quickCommand", cmd)
    /\ UNCHANGED <<acVars, build, mode, clock, socket, activeSkin, latestPlate, isConnected,
                   liveInput, demoVars, plateVars>>

\* onClose of a rendered plate: setPlate(null).
LiveDismiss ==
    /\ build = "validated"
    /\ latestPlate # <<>>
    /\ latestPlate' = <<>>
    /\ fx' = Fx("dismiss")
    /\ UNCHANGED <<acVars, build, mode, clock, socket, activeSkin, isConnected, liveMessages,
                   liveInput, demoVars, plateVars>>

-----------------------------------------------------------------------------
\* Time passes: Date.now() grows.
Tick ==
    /\ clock < MaxClock
    /\ clock' = clock + 1
    /\ fx' = NoFx
    /\ UNCHANGED <<acVars, build, mode, socket, liveVars, demoVars, plateVars>>

\* A plate component is mounted anew (remount) or stays: its local state is
\* the initial one or is kept.
ResetPlateLocal(remount) ==
    IF remount
    THEN /\ selected' = 0
         /\ state' = ""
         /\ overrideText' = <<>>
         /\ showOverride' = FALSE
    ELSE UNCHANGED plateVars

\* The mode buttons of the status bar: setMode(m).
Modes == {"STANDARD", "FIELD", "AMBIENT"}

\* fieldMode of the demo CommandCenter, which decides where the plate is
\* placed in the tree.
fieldMode(m) == m = "FIELD"

SetMode(m) ==
    /\ mode' = m
    /\ fx' = Fx("setMode")
    /\ ResetPlateLocal(build = "demo" /\ plate # <<>> /\ fieldMode(m) # fieldMode(mode))
    /\ UNCHANGED <<acVars, build, clock, socket, liveVars, demoVars>>

\* The greeting the providers start with (id 0).
Greeting == Message(0, TRUE, JStr("Good morning, Ahsin."), JStr("SYSTEM"), JStr("CARBON_LLC"), <<>>, "greeting")

Init ==
    /\ build \in {"validated", "demo"}
    /\ mode = "STANDARD"
    /\ clock = 0
    /\ socket = "CONNECTING"
    /\ fx = NoFx
    /\ activeSkin = "SUPER_ADMIN"
    /\ latestPlate = <<>>
    /\ isConnected = FALSE
    /\ liveMessages = <<Greeting>>
    /\ liveInput = <<>>
    /\ messages = <<Greeting>>
    /\ input = <<>>
    /\ plate = <<>>
    /\ processing = FALSE
    /\ wsState = "CONNECTING"
    /\ stagedFiles = <<>>
    /\ replyTimers = <<>>
    /\ anomalyTimers = <<>>
    /\ selected = 0
    /\ state = ""
    /\ overrideText = <<>>
    /\ showOverride = FALSE
    /\ queue = <<>>
    /\ loading = TRUE
    /\ approvingId = ""
    /\ rejectingId = ""
    /\ requests = <<>>
    /\ removals = <<>>
    /\ toasts = <<>>
    /\ settled = {}

\* The validated provider receiving server frames: the plate-mount gate.
InitPlate == Init /\ build = "validated"

NextPlate ==
    \/ LiveOnOpen
    \/ LiveOnClose
    \/ \E ev \in Events, canVibrate \in BOOLEAN :
          /\ IsChatEvent(ev) => Len(liveMessages) < MaxSideMessages
          /\ LiveOnMessage(ev, canVibrate)
    \/ LiveDismiss

SpecPlate == InitPlate /\ [][NextPlate]_vars

-----------------------------------------------------------------------------
(* The wire contract of a MOUNT_PLATE frame, as the specification words    *)
(* it: the structural phase and the semantic phase.                        *)
HasType(d, k, types) == d[k].t \in types

\* Every required top-level field and strategy sub-field has its shape.
StructurallyValid(d) ==
    /\ \A k \in {"type", "plate_id", "intent", "target_entity", "suggested_action",
                 "timestamp"} : HasType(d, k, {"string"})
    /\ HasType(d, "confidence", {"number"})
    /\ HasType(d, "entities", {"object"})
    /\ HasType(d, "strategy", {"object"})
    /\ HasType(d, "skin", {"string"})
    /\ HasType(d, "urgency", {"number"})
    /\ HasType(d, "vibration", {"boolean"})
    /\ HasType(d, "overlay", {"string", "null"})
    /\ HasType(d, "dataset", {"array"})

\* The plate ids that have a specialized schema in validatePlatePayload.
FinanceIds == {"FINANCE_NOTE", "FINANCE_CHART"}
InventoryIds == {"INVENTORY_TABLE"}

\* The frame satisfies the specialized schema of its plate id, if any.
SemanticallyValid(d) ==
    /\ d["plate_id"].s \in FinanceIds =>
          /\ HasType(d, "vin", {"string"})
          /\ HasType(d, "lender_name", {"string"})
          /\ HasType(d, "principal_amount", {"number"})
          /\ HasType(d, "interest_rate", {"number", "undefined"})
          /\ HasType(d, "maturity_date", {"string", "undefined"})
    /\ d["plate_id"].s \in InventoryIds =>
          /\ HasType(d, "vin", {"string"})
          /\ HasType(d, "status", {"string"})
          /\ HasType(d, "make", {"string", "undefined"})
          /\ HasType(d, "model", {"string", "undefined"})

\* The handler that ran last handled a frame whose type tag is MOUNT_PLATE.
HandledMountFrame ==
    /\ fx.op = "onmessage"
    /\ fx.ev.kind = "object"
    /\ IsStr(fx.ev.data["type"], "MOUNT_PLATE")

\* The active plate is the corrupt record made of the frame handled last.
CorruptRecordActive ==
    /\ Len(latestPlate) = 1
    /\ latestPlate[1].data = fx.ev.data
    /\ latestPlate[1].is_corrupt
    /\ latestPlate[1].validation_error # ""

\* C1: once a MOUNT_PLATE frame that satisfies the structural schema and the
\* specialized schema of its plate id (if it has one) has been handled, the
\* active plate is that frame, not flagged corrupt, and the active skin is
\* the frame's strategy.skin.
C1_ValidFrameMounted ==
    (build = "validated" /\ HandledMountFrame
        /\ StructurallyValid(fx.ev.data) /\ SemanticallyValid(fx.ev.data))
    => /\ latestPlate = <<PlateRecord(fx.ev.data, FALSE, "")>>
       /\ latestPlate[1].data["plate_id"] = fx.ev.data["plate_id"]
       /\ activeSkin = fx.ev.data["skin"].s

\* A valid frame with a skin other than the initial one is the active plate.
C1_Witness ==
    /\ build = "validated" /\ HandledMountFrame
    /\ StructurallyValid(fx.ev.data) /\ SemanticallyValid(fx.ev.data)
    /\ fx.ev.data["plate_id"].s = "FINANCE_NOTE"
    /\ fx.ev.data["skin"].s = "FIELD_DIAGNOSTIC"
    /\ activeSkin = "FIELD_DIAGNOSTIC"
    /\ Len(latestPlate) = 1 /\ ~latestPlate[1].is_corrupt

\* C2: once a MOUNT_PLATE frame that fails the structural check (a required
\* top-level field or strategy sub-field missing or mistyped) has been
\* handled, the active plate is a record flagged corrupt with a non-empty
\* validation error, and exactly one render-error report was attempted.
C2_StructuralFailureCorrupt ==
    (build = "validated" /\ HandledMountFrame /\ ~StructurallyValid(fx.ev.data))
    => (CorruptRecordActive /\ fx.reports = 1)

\* C3: once a MOUNT_PLATE frame that passes the structural check but violates
\* the specialized schema of its plate id has been handled, the active plate
\* is a record flagged corrupt with a non-empty validation error, and exactly
\* one render-error report was attempted, as for a structural failure.
C3_SemanticFailureCorrupt ==
    (build = "validated" /\ HandledMountFrame
        /\ StructurallyValid(fx.ev.data) /\ ~SemanticallyValid(fx.ev.data))
    => (CorruptRecordActive /\ fx.reports = 1 /\ fx.report.reason # "")

\* A FINANCE_NOTE frame without principal_amount is the active, corrupt plate.
C3_Witness ==
    /\ build = "validated" /\ HandledMountFrame
    /\ StructurallyValid(fx.ev.data)
    /\ fx.ev.data["plate_id"].s = "FINANCE_NOTE"
    /\ fx.ev.data["principal_amount"].t = "undefined"
    /\ CorruptRecordActive /\ fx.reports = 1

\* C5: once the example frame (FINANCE_CHART, generic fields only, skin
\* SUPER_ADMIN, urgency 3, vibration false) has been handled, it is the
\* active plate without a corruption flag, the active skin is SUPER_ADMIN and
\* neither the audible nor the haptic feedback was triggered.
C5_ExampleFrameMounted ==
    (build = "validated" /\ fx.op = "onmessage" /\ fx.ev = Event("object", ExampleFrame))
    => /\ latestPlate = <<PlateRecord(ExampleFrame, FALSE, "")>>
       /\ activeSkin = "SUPER_ADMIN"
       /\ ~fx.tone /\ ~fx.vibrate

\* C6: once a MOUNT_PLATE frame B has been handled, B's plate (its valid or
\* its corrupt record) is the one active plate, whatever was active before;
\* a dismissal leaves no plate active; and the active plate changes to a
\* plate only by the handling of the frame that carries it.
C6_NewestWins ==
    [][/\ (build' = "validated" /\ HandledMountFrame')
            => (Len(latestPlate') = 1 /\ latestPlate'[1].data = fx'.ev.data)
       /\ fx'.op = "dismiss" => latestPlate' = <<>>
       /\ (latestPlate' # latestPlate /\ latestPlate' # <<>>)
            => (fx'.op = "onmessage" /\ latestPlate'[1].data = fx'.ev.data)]_vars

\* The single slot and the absence of a queue, on the frames the plate branch
\* takes: the part of C6 that holds.
NoPlateQueue ==
    [][/\ (build' = "validated" /\ HandledMountFrame' /\ IsMountDirective(fx'.ev.data))
            => (Len(latestPlate') = 1 /\ latestPlate'[1].data = fx'.ev.data)
       /\ fx'.op = "dismiss" => latestPlate' = <<>>
       /\ (latestPlate' # latestPlate /\ latestPlate' # <<>>)
            => (fx'.op = "onmessage" /\ latestPlate'[1].data = fx'.ev.data)]_vars

-----------------------------------------------------------------------------
(* The demo provider (contexts/OrchestratorContext.tsx) and its            *)
(* CommandCenter (App.tsx).                                                *)

\* FLOWS.keywords, in the order Object.entries yields them.
FLOWS_keywords ==
    << [key |-> "finance", words |-> <<<<"f", "i", "n", "a", "n", "c">>,
            <<"p", "&", "l">>,
            <<"r", "e", "v", "e", "n", "u", "e">>,
            <<"m", "a", "r", "g", "i", "n">>,
            <<"m", "o", "n", "e", "y">>,
            <<"k", "a", "m", "m", " ", "f", "i", "n", "a", "n", "c", "i", "a", "l", "s">>,
            <<"l", "a", "n", "e", " ", "a">>,
            <<"s", "h", "o", "w", " ", "m", "e", " ", "k", "a", "m", "m">>>>],
       [key |-> "twin", words |-> <<<<"t", "w", "i", "n">>,
            <<"m", "4">>,
            <<"d", "i", "g", "i", "t", "a", "l", " ", "t", "w", "i", "n">>,
            <<"b", "m", "w">>,
            <<"v", "e", "h", "i", "c", "l", "e">>,
            <<"v", "i", "n">>>>],
       [key |-> "anomaly", words |-> <<<<"a", "n", "o", "m", "a", "l">>,
            <<"a", "l", "e", "r", "t">>,
            <<"m", "o", "n", "i", "t", "o", "r">>,
            <<"s", "l", "e", "e", "p">>,
            <<"s", "p", "i", "k", "e">>,
            <<"f", "l", "a", "g">>,
            <<"w", "a", "r", "n", "i", "n", "g">>>>],
       [key |-> "collision", words |-> <<<<"u", "p", "d", "a", "t", "e">>,
            <<"m", "i", "l", "e", "a", "g", "e">>,
            <<"w", "h", "i", "c", "h">>,
            <<"t", "w", "o">>,
            <<"b", "o", "t", "h">>>>],
       [key |-> "inventory", words |-> <<<<"i", "n", "v", "e", "n", "t", "o", "r", "y">>,
            <<"s", "t", "o", "c", "k">>,
            <<"l", "o", "t">>,
            <<"f", "l", "e", "e", "t">>,
            <<"a", "v", "a", "i", "l", "a", "b", "l", "e">>,
            <<"v", "e", "h", "i", "c", "l", "e", "s">>>>],
       [key |-> "logistics", words |-> <<<<"d", "i", "s", "p", "a", "t", "c", "h">>,
            <<"d", "r", "i", "v", "e", "r">>,
            <<"t", "r", "a", "c", "k">>,
            <<"d", "e", "l", "i", "v", "e", "r", "y">>,
            <<"c", "a", "r", "l", "u", "x">>,
            <<"m", "o", "a", "z">>,
            <<"t", "r", "a", "n", "s", "p", "o", "r", "t">>>>] >>

\* FLOWS.responses[key]: text (its first sentence), plate, intent, entity.
FLOWS_responses(key) ==
    CASE key = "finance" -> [text |-> "Running finance aggregation across all active entities.", plate |-> "FINANCE", intent |-> "FINANCE", entity |-> "ALL_ENTITIES"]
      [] key = "twin" -> [text |-> "Digital Twin loaded for VIN WBA93HM0XP1234567.", plate |-> "TWIN", intent |-> "INVENTORY", entity |-> "BMW_M4_KAMM"]
      [] key = "anomaly" -> [text |-> "Sleep Monitor fired 14 minutes ago.", plate |-> "ANOMALY", intent |-> "COMPLIANCE", entity |-> "CARLUX_LLC"]
      [] key = "collision" -> [text |-> "I found two BMW M4 Competition units in inventory_master.", plate |-> "COLLISION", intent |-> "INVENTORY", entity |-> "AMBIGUOUS"]
      [] key = "inventory" -> [text |-> "Pulling current inventory state across KAMM, Fluiditruck, AutoHaus Services, and AstroLogistics.", plate |-> "INVENTORY", intent |-> "INVENTORY", entity |-> "ALL_ENTITIES"]
      [] key = "logistics" -> [text |-> "Carlux dispatch active.", plate |-> "LOGISTICS", intent |-> "LOGISTICS", entity |-> "CARLUX_LLC"]

\* String.prototype.toLowerCase, one character.
LowerChar(c) ==
    CASE c = "A" -> "a"
      [] c = "B" -> "b"
      [] c = "C" -> "c"
      [] c = "D" -> "d"
      [] c = "E" -> "e"
      [] c = "F" -> "f"
      [] c = "G" -> "g"
      [] c = "H" -> "h"
      [] c = "I" -> "i"
      [] c = "J" -> "j"
      [] c = "K" -> "k"
      [] c = "L" -> "l"
      [] c = "M" -> "m"
      [] c = "N" -> "n"
      [] c = "O" -> "o"
      [] c = "P" -> "p"
      [] c = "Q" -> "q"
      [] c = "R" -> "r"
      [] c = "S" -> "s"
      [] c = "T" -> "t"
      [] c = "U" -> "u"
      [] c = "V" -> "v"
      [] c = "W" -> "w"
      [] c = "X" -> "x"
      [] c = "Y" -> "y"
      [] c = "Z" -> "z"
      [] OTHER -> c

toLowerCase(cs) == [i \in 1..Len(cs) |-> LowerChar(cs[i])]

\* String.prototype.includes
includes(cs, w) ==
    \E i \in 0..(Len(cs) - Len(w)) : \A k \in 1..Len(w) : cs[i + k] = w[k]

\* The loop of classifyIntent from entry number i of FLOWS.keywords on: the
\* first key one of whose words the lowered text includes, or "" for null.
RECURSIVE classifyFrom(_, _)
classifyFrom(lower, i) ==
    IF i > Len(FLOWS_keywords) THEN ""
    ELSE IF \E j \in 1..Len(FLOWS_keywords[i].words) :
                includes(lower, FLOWS_keywords[i].words[j])
         THEN FLOWS_keywords[i].key
         ELSE classifyFrom(lower, i + 1)

\* classifyIntent(text).  The lowered text is bound once, as the code binds
\* its constant lower.
classifyIntent(text) ==
    LET keys == { FLOWS_keywords[i].key : i \in 1..Len(FLOWS_keywords) } \cup {""}
    IN CHOOSE key \in keys :
          \E lower \in {toLowerCase(text)} : key = classifyFrom(lower, 1)

\* A staged file: its name, the extension after the last dot, and the two
\* halves of its MIME type.
File(name, ext, major, sub) == [name |-> name, ext |-> ext, major |-> major, sub |-> sub]

Photo == File("photo.png", "png", "image", "png")
Invoice == File("invoice.pdf", "pdf", "application", "pdf")

\* MEDIA_RESPONSES[type]: intent, entity and confidence of each pooled
\* response.
MEDIA_RESPONSES(type) ==
    CASE type = "image" -> << [intent |-> "SERVICE", entity |-> "VISUAL_SCRIBE", confidence |-> 91],
                              [intent |-> "SERVICE", entity |-> "VISUAL_SCRIBE", confidence |-> 88],
                              [intent |-> "SERVICE", entity |-> "VISUAL_SCRIBE", confidence |-> 90] >>
      [] type = "pdf" -> << [intent |-> "INVENTORY", entity |-> "KAMM_LLC", confidence |-> 96],
                            [intent |-> "COMPLIANCE", entity |-> "CARLUX_LLC", confidence |-> 94],
                            [intent |-> "COMPLIANCE", entity |-> "KAMM_LLC", confidence |-> 98] >>
      [] type = "video" -> << [intent |-> "SERVICE", entity |-> "VISUAL_SCRIBE", confidence |-> 87] >>
      [] type = "doc" -> << [intent |-> "COMPLIANCE", entity |-> "CARBON_LLC", confidence |-> 97] >>

\* The media type getMediaResponse derives from a file.
mediaType(file) ==
    IF file.major = "image" THEN "image"
    ELSE IF (file.major = "application" /\ file.sub = "pdf") \/ file.ext = "pdf" THEN "pdf"
    ELSE IF file.major = "video" THEN "video"
    ELSE "doc"

\* getMediaResponse(file): the pool Math.random picks from.
getMediaResponse(file) == MEDIA_RESPONSES(mediaType(file))

\* The quick commands QuickCommands offers a SOVEREIGN user.
SovereignCommands ==
    << [label |-> "KAMM Financials",
        cmd |-> <<"S", "h", "o", "w", " ", "m", "e", " ", "K", "A", "M", "M", " ", "f", "i", "n", "a", "n", "c", "i", "a", "l", "s">>],
       [label |-> "M4 Digital Twin",
        cmd |-> <<"P", "u", "l", "l", " ", "u", "p", " ", "t", "h", "e", " ", "d", "i", "g", "i", "t", "a", "l", " ", "t", "w", "i", "n", " ", "f", "o", "r", " ", "t", "h", "e", " ", "M", "4">>],
       [label |-> "Anomaly Alert",
        cmd |-> <<"S", "h", "o", "w", " ", "m", "e", " ", "t", "h", "e", " ", "l", "a", "t", "e", "s", "t", " ", "a", "n", "o", "m", "a", "l", "y", " ", "a", "l", "e", "r", "t">>],
       [label |-> "Collision",
        cmd |-> <<"U", "p", "d", "a", "t", "e", " ", "t", "h", "e", " ", "M", "4", " ", "m", "i", "l", "e", "a", "g", "e">>],
       [label |-> "Inventory",
        cmd |-> <<"S", "h", "o", "w", " ", "f", "u", "l", "l", " ", "i", "n", "v", "e", "n", "t", "o", "r", "y">>],
       [label |-> "Dispatch",
        cmd |-> <<"T", "r", "a", "c", "k", " ", "t", "h", "e", " ", "C", "a", "r", "l", "u", "x", " ", "d", "r", "i", "v", "e", "r">>] >>

\* USERS.AHSIN.id, the user the provider starts with.
UserId == "AHSIN_CEO"

\* The plate ids plateMap registers.
plateMap == {"FINANCE", "TWIN", "ANOMALY", "COLLISION", "INVENTORY", "LOGISTICS"}

\* A pending setTimeout callback of sendMessage: the text and files it closed
\* over.
ReplyTimer(text, files) == [text |-> text, files |-> files]

\* The sequence seq without its element number i.
RemoveAt(seq, i) == SubSeq(seq, 1, i - 1) \o SubSeq(seq, i + 1, Len(seq))

\* slice(-n) in the place of slice(0, n): the last n elements.
slice_KeepsLast(seq, n) ==
    SubSeq(seq, IF Len(seq) < n THEN 1 ELSE Len(seq) - n + 1, Len(seq))

\* Array.prototype.slice(0, n)
slice(seq, n) == SubSeq(seq, 1, IF Len(seq) < n THEN Len(seq) ELSE n)

\* The guard of sendMessage without its test of processing.
SendRejected_NoInFlightCheck(text, files) ==
    Trim(text) = <<>> /\ files = <<>>

\* The guard of sendMessage without its test of the text and the files.
SendRejected_OnlyInFlightCheck(text, files) == processing

\* The guard of sendMessage: does the call return at once.
SendRejected(text, files) ==
    (Trim(text) = <<>> /\ files = <<>>) \/ processing

\* sendMessage(text, files) of the demo provider, called by the handler op.
DemoSendMessage(op, text, files) ==
    LET hasText == Trim(text) # <<>>
        hasFiles == files # <<>>
    IN IF SendRejected(text, files)
       THEN /\ fx' = Fx(op)
            /\ UNCHANGED <<messages, input, stagedFiles, processing, replyTimers>>
       ELSE /\ messages' = Append(messages,
                   Message(clock, FALSE, IF hasText THEN JStr(Join(text)) ELSE JNull,
                           JUndef, JUndef, files, "human"))
            /\ input' = <<>>
            /\ stagedFiles' = <<>>
            /\ processing' = TRUE
            /\ fx' = [Fx(op) EXCEPT !.sent =
                        IF socket = "OPEN" /\ hasText
                        THEN <<[text |-> Join(text), user_id |-> UserId]>> ELSE <<>>]
            /\ replyTimers' = Append(replyTimers, ReplyTimer(text, files))

\* handleSend of the demo CommandCenter: the send button or the Enter key.
DemoHandleSend ==
    /\ build = "demo"
    /\ DemoSendMessage("handleSend", input, stagedFiles)
    /\ UNCHANGED <<acVars, build, mode, clock, socket, plate, wsState, anomalyTimers, liveVars, plateVars>>

\* A quick-command button: sendMessage(cmd).
DemoQuickCommand(c) ==
    /\ build = "demo"
    /\ DemoSendMessage("quickCommand", c.cmd, <<>>)
    /\ UNCHANGED <<acVars, build, mode, clock, socket, plate, wsState, anomalyTimers, liveVars, plateVars>>

\* The reply sendMessage's timer callback builds for a text-only send.
TextReply(text) ==
    LET intent == classifyIntent(text)
    IN IF intent # ""
       THEN LET flow == FLOWS_responses(intent)
            IN Message(clock + 1, TRUE, JStr(flow.text), JStr(flow.intent),
                       JStr(flow.entity), <<>>, "reply")
       ELSE Message(clock + 1, TRUE, JStr("Command received and routed through the Agentic Router."),
                    JStr("PROCESSING"), JStr("CIL"), <<>>, "reply")

\* The reply the timer callback builds from the media response resp.
MediaReply(resp) ==
    Message(clock + 1, TRUE, JStr("media analysis"), JStr(resp.intent), JStr(resp.entity),
            <<>>, "reply")

\* The timer callback without its setProcessing(false) and setPlate calls.
DemoReplyTimer_KeepsProcessing(i, r) ==
    /\ build = "demo"
    /\ i \in 1..Len(replyTimers)
    /\ LET t == replyTimers[i]
       IN IF t.files # <<>>
          THEN /\ r \in 1..Len(getMediaResponse(t.files[1]))
               /\ messages' = Append(messages, MediaReply(getMediaResponse(t.files[1])[r]))
          ELSE /\ r = 1
               /\ messages' = Append(messages, TextReply(t.text))
    /\ replyTimers' = RemoveAt(replyTimers, i)
    /\ fx' = Fx("replyTimer")
    /\ UNCHANGED <<acVars, build, mode, clock, socket, input, plate, processing, wsState, stagedFiles,
                   anomalyTimers, liveVars, plateVars>>

\* The setTimeout callback of sendMessage: pending timer number i fires;
\* r is the index Math.random picks in the media pool.
DemoReplyTimer(i, r) ==
    /\ build = "demo"
    /\ i \in 1..Len(replyTimers)
    /\ LET t == replyTimers[i]
           hasFiles == t.files # <<>>
           intent == classifyIntent(t.text)
       IN /\ IF hasFiles
             THEN /\ r \in 1..Len(getMediaResponse(t.files[1]))
                  /\ messages' = Append(messages, MediaReply(getMediaResponse(t.files[1])[r]))
                  /\ UNCHANGED plate
             ELSE /\ r = 1
                  /\ messages' = Append(messages, TextReply(t.text))
                  /\ plate' = IF intent # "" THEN <<JStr(FLOWS_responses(intent).plate)>> ELSE plate
          /\ processing' = FALSE
          /\ replyTimers' = RemoveAt(replyTimers, i)
    /\ fx' = Fx("replyTimer")
    /\ UNCHANGED <<acVars, build, mode, clock, socket, input, wsState, stagedFiles, anomalyTimers, liveVars>>
    /\ ResetPlateLocal(plate' # plate)

\* stageFiles(rawFiles): the file input's onChange, or a drop.
stageFiles(picked) ==
    /\ build = "demo"
    /\ picked # <<>>
    /\ stagedFiles' = slice(stagedFiles \o picked, 5)
    /\ fx' = [Fx("stageFiles") EXCEPT !.picked = picked]
    /\ UNCHANGED <<acVars, build, mode, clock, socket, messages, input, plate, processing, wsState,
                   replyTimers, anomalyTimers, liveVars, plateVars>>

\* removeStaged(i): the remove button of staged chip i (from 0).
removeStaged(i) ==
    /\ build = "demo"
    /\ i \in 0..(Len(stagedFiles) - 1)
    /\ stagedFiles' = RemoveAt(stagedFiles, i + 1)
    /\ fx' = NoFx
    /\ UNCHANGED <<acVars, build, mode, clock, socket, messages, input, plate, processing, wsState,
                   replyTimers, anomalyTimers, liveVars, plateVars>>

\* onChange of the demo CommandCenter's textarea: setInput.
DemoSetInput(cs) ==
    /\ build = "demo"
    /\ input' = cs
    /\ fx' = NoFx
    /\ UNCHANGED <<acVars, build, mode, clock, socket, messages, plate, processing, wsState, stagedFiles,
                   replyTimers, anomalyTimers, liveVars, plateVars>>

\* ENTITY_OPTIONS: the vin and the entity of each vehicle the collision
\* plate offers.
ENTITY_OPTIONS ==
    << [vin |-> "WBA93HM0XP1234567", entity |-> "KAMM_LLC"],
       [vin |-> "WBA93HM0XP9876543", entity |-> "FLUIDITRUCK_LLC"] >>

\* The plate with this id is the one the demo CommandCenter renders.
Rendered(id) == plate = <<JStr(id)>>

\* The text of the confirmation handleResolve appends.
ResolveText(vehicle) ==
    "Collision resolved. Entity confirmed: " \o vehicle.entity \o " · VIN " \o vehicle.vin
    \o ". Workflow resumed. Identity Engine updated. What update would you like to apply?"

\* handleResolve confirming the first option whatever was selected.
handleResolve_FirstOption(vehicle) ==
    /\ messages' = Append(messages,
           Message(clock, TRUE, JStr(ResolveText(ENTITY_OPTIONS[1])), JStr("INVENTORY"),
                   JStr(ENTITY_OPTIONS[1].entity), <<>>, "resolve"))
    /\ plate' = <<>>

\* handleResolve(vehicle) of the demo provider.
handleResolve(vehicle) ==
    /\ messages' = Append(messages,
           Message(clock, TRUE, JStr(ResolveText(vehicle)), JStr("INVENTORY"),
                   JStr(vehicle.entity), <<>>, "resolve"))
    /\ plate' = <<>>

\* CollisionPlate: a click on option i (from 1): setSelected(i).
SelectOption(i) ==
    /\ build = "demo"
    /\ Rendered("COLLISION")
    /\ i \in 1..Len(ENTITY_OPTIONS)
    /\ selected' = i
    /\ fx' = Fx("selectOption")
    /\ UNCHANGED <<acVars, build, mode, clock, socket, messages, input, plate, processing, wsState,
                   stagedFiles, replyTimers, anomalyTimers, state, overrideText,
                   showOverride, liveVars>>

\* CollisionPlate: the confirm button:
\* selected !== null && onResolve(ENTITY_OPTIONS[selected]).
ConfirmSelection ==
    /\ build = "demo"
    /\ Rendered("COLLISION")
    /\ fx' = Fx("confirmSelection")
    /\ IF selected # 0
       THEN /\ handleResolve(ENTITY_OPTIONS[selected])
            /\ ResetPlateLocal(TRUE)
       ELSE UNCHANGED <<messages, plate, plateVars>>
    /\ UNCHANGED <<acVars, build, mode, clock, socket, input, processing, wsState, stagedFiles,
                   replyTimers, anomalyTimers, liveVars>>

\* handleAnomalyDecision(type) of the demo provider.
handleAnomalyDecision(type) == anomalyTimers' = Append(anomalyTimers, type)

\* AnomalyPlate: handleDecision(type): setState(type); onDecision(type).
handleDecision(op, type) ==
    /\ state' = type
    /\ handleAnomalyDecision(type)
    /\ fx' = [Fx(op) EXCEPT !.decision = type]
    /\ UNCHANGED <<selected, overrideText, showOverride>>

\* The decision buttons are rendered: the anomaly plate is shown and no
\* decision has been taken in it.
DecisionButtons == build = "demo" /\ Rendered("ANOMALY") /\ state = ""

\* AnomalyPlate: the APPROVE button.
ApproveClick ==
    /\ DecisionButtons
    /\ handleDecision("approveClick", "APPROVED")
    /\ UNCHANGED <<acVars, build, mode, clock, socket, messages, input, plate, processing, wsState,
                   stagedFiles, replyTimers, liveVars>>

\* The override button recording the override without looking at the
\* reason field.
OverrideClick_NoReasonCheck ==
    /\ DecisionButtons
    /\ IF ~showOverride
       THEN /\ showOverride' = TRUE
            /\ fx' = Fx("overrideClick")
            /\ UNCHANGED <<selected, state, overrideText, anomalyTimers>>
       ELSE handleDecision("overrideClick", "OVERRIDE")
    /\ UNCHANGED <<acVars, build, mode, clock, socket, messages, input, plate, processing, wsState,
                   stagedFiles, replyTimers, liveVars>>

\* AnomalyPlate: the override button: the first click shows the reason
\* field, a later click records the override if the field holds text.
OverrideClick ==
    /\ DecisionButtons
    /\ IF ~showOverride
       THEN /\ showOverride' = TRUE
            /\ fx' = Fx("overrideClick")
            /\ UNCHANGED <<selected, state, overrideText, anomalyTimers>>
       ELSE IF overrideText # <<>>
       THEN handleDecision("overrideClick", "OVERRIDE")
       ELSE /\ fx' = Fx("overrideClick")
            /\ UNCHANGED <<plateVars, anomalyTimers>>
    /\ UNCHANGED <<acVars, build, mode, clock, socket, messages, input, plate, processing, wsState,
                   stagedFiles, replyTimers, liveVars>>

\* AnomalyPlate: onChange of the reason field: setOverrideText(cs).
SetOverrideText(cs) ==
    /\ DecisionButtons
    /\ showOverride
    /\ overrideText' = cs
    /\ fx' = NoFx
    /\ UNCHANGED <<acVars, build, mode, clock, socket, messages, input, plate, processing, wsState,
                   stagedFiles, replyTimers, anomalyTimers, selected, state, showOverride,
                   liveVars>>

\* The setTimeout callback of handleAnomalyDecision: pending timer i fires.
DemoAnomalyTimer(i) ==
    /\ build = "demo"
    /\ i \in 1..Len(anomalyTimers)
    /\ messages' = Append(messages,
           Message(clock, TRUE,
                   JStr(IF anomalyTimers[i] = "APPROVED" THEN "Anomaly approved."
                        ELSE "Override logged with reason."),
                   JStr("COMPLIANCE"), JStr("CARBON_LLC"), <<>>, "anomaly"))
    /\ anomalyTimers' = RemoveAt(anomalyTimers, i)
    /\ fx' = Fx("anomalyTimer")
    /\ UNCHANGED <<acVars, build, mode, clock, socket, input, plate, processing, wsState, stagedFiles,
                   replyTimers, liveVars, plateVars>>

\* onClose of a rendered plate of the demo CommandCenter: setPlate(null).
DemoDismiss ==
    /\ build = "demo"
    /\ plate # <<>>
    /\ plate[1].t = "string" /\ plate[1].s \in plateMap
    /\ plate' = <<>>
    /\ fx' = Fx("dismiss")
    /\ UNCHANGED <<acVars, build, mode, clock, socket, messages, input, processing, wsState, stagedFiles,
                   replyTimers, anomalyTimers, liveVars>>
    /\ ResetPlateLocal(plate' # plate)

\* ws.onopen of the demo provider.
DemoOnOpen ==
    /\ build = "demo"
    /\ socket = "CONNECTING"
    /\ socket' = "OPEN"
    /\ wsState' = "LIVE"
    /\ fx' = NoFx
    /\ UNCHANGED <<acVars, build, mode, clock, messages, input, plate, processing, stagedFiles,
                   replyTimers, anomalyTimers, liveVars, plateVars>>

\* ws.onerror of the demo provider; the socket then closes.
DemoOnError ==
    /\ build = "demo"
    /\ socket \in {"CONNECTING", "OPEN"}
    /\ socket' = "CLOSING"
    /\ wsState' = "CONNECTING"
    /\ fx' = NoFx
    /\ UNCHANGED <<acVars, build, mode, clock, messages, input, plate, processing, stagedFiles,
                   replyTimers, anomalyTimers, liveVars, plateVars>>

\* ws.onclose of the demo provider.
DemoOnClose ==
    /\ build = "demo"
    /\ socket \in {"CONNECTING", "OPEN", "CLOSING"}
    /\ socket' = "CLOSED"
    /\ wsState' = "CONNECTING"
    /\ fx' = NoFx
    /\ UNCHANGED <<acVars, build, mode, clock, messages, input, plate, processing, stagedFiles,
                   replyTimers, anomalyTimers, liveVars, plateVars>>

\* ws.onmessage of the demo provider with a greeting frame starting the
\* transcript over from the greeting.
DemoOnMessage_GreetingResets(ev) ==
    /\ build = "demo"
    /\ socket = "OPEN"
    /\ fx' = [Fx("onmessage") EXCEPT !.ev = ev, !.replaced = (plate # <<>>)]
    /\ IF ev.kind # "object"
       THEN \* JSON.parse throws, or data.type throws on null: caught, ignored
            UNCHANGED <<plate, messages>>
       ELSE LET data == ev.data
                mounted == IF IsStr(data["type"], "MOUNT_PLATE") /\ Truthy(data["plate_id"])
                           THEN <<data["plate_id"]>> ELSE plate
            IN /\ plate' = IF IsStr(data["action"], "mount_plate") /\ Truthy(data["component"])
                           THEN <<data["component"]>> ELSE mounted
               /\ messages' = IF /\ IsStr(data["type"], "greeting") /\ Truthy(data["text"])
                                 /\ Len(messages) > 0 /\ messages[1].id = 0
                              THEN <<[messages[1] EXCEPT !.text = data["text"]]>>
                              ELSE messages
    /\ UNCHANGED <<acVars, build, mode, clock, socket, input, processing, wsState, stagedFiles,
                   replyTimers, anomalyTimers, liveVars>>
    /\ ResetPlateLocal(plate' # plate)

\* ws.onmessage of the demo provider.
DemoOnMessage(ev) ==
    /\ build = "demo"
    /\ socket = "OPEN"
    /\ fx' = [Fx("onmessage") EXCEPT !.ev = ev, !.replaced = (plate # <<>>)]
    /\ IF ev.kind # "object"
       THEN \* JSON.parse throws, or data.type throws on null: caught, ignored
            UNCHANGED <<plate, messages>>
       ELSE LET data == ev.data
                mounted == IF IsStr(data["type"], "MOUNT_PLATE") /\ Truthy(data["plate_id"])
                           THEN <<data["plate_id"]>> ELSE plate
            IN /\ plate' = IF IsStr(data["action"], "mount_plate") /\ Truthy(data["component"])
                           THEN <<data["component"]>> ELSE mounted
               /\ messages' = IF /\ IsStr(data["type"], "greeting") /\ Truthy(data["text"])
                                 /\ Len(messages) > 0 /\ messages[1].id = 0
                              THEN [messages EXCEPT ![1].text = data["text"]]
                              ELSE messages
    /\ UNCHANGED <<acVars, build, mode, clock, socket, input, processing, wsState, stagedFiles,
                   replyTimers, anomalyTimers, liveVars>>
    /\ ResetPlateLocal(plate' # plate)

-----------------------------------------------------------------------------
(* The two providers in conversation: few frames, typed text, sends.       *)
MaxDemoStaged == 1     \* files a user keeps staged in Spec
MaxQuick == 1          \* quick commands a user clicks in Spec: the first MaxQuick

\* The texts a user of the demo CommandCenter types.
DemoTexts == { <<>>, <<" ">>, <<"h", "i">> }

\* The files a user picks in Spec.
DemoPicks == { <<Photo>> }

\* The frames the server sends in Spec.
LegacyFrame == [EmptyFrame EXCEPT !["action"] = JStr("mount_plate"), !["component"] = JStr("COLLISION")]
BareMountFrame == [EmptyFrame EXCEPT !["type"] = JStr("MOUNT_PLATE"), !["plate_id"] = JStr("ANOMALY")]

\* The frame push_plate of the backend design builds: action MOUNT_PLATE and
\* the plate type as component (its data member is read by no handler).
PushPlateFrame ==
    [EmptyFrame EXCEPT !["action"] = JStr("MOUNT_PLATE"), !["component"] = JStr("FINANCE_CHART")]

FewEvents ==
    { Event("garbage", EmptyFrame), Event("null", EmptyFrame) } \cup
    { Event("object", f) :
        f \in { LegacyFrame, BareMountFrame, GreetingFrame, PushPlateFrame,
                DomainFields("INVENTORY_TABLE", GenericFrame("INVENTORY_TABLE", "FIELD_DIAGNOSTIC", 9, TRUE)),
                DefectiveFrame("FINANCE_NOTE", <<"plate_id", JUndef>>),
                [EmptyFrame EXCEPT !["type"] = JStr("SYSTEM"), !["message"] = JStr("Ledger synced")] } }

NextLive ==
    \/ LiveOnOpen
    \/ LiveOnClose
    \/ \E ev \in FewEvents, canVibrate \in BOOLEAN :
          /\ IsChatEvent(ev) => Len(liveMessages) < MaxMessages
          /\ LiveOnMessage(ev, canVibrate)
    \/ \E cs \in LiveTexts : LiveSetInput(cs)
    \/ Len(liveMessages) < MaxMessages /\ LiveHandleSend
    \/ \E cmd \in LiveQuickCommands : Len(liveMessages) < MaxMessages /\ LiveQuickCommand(cmd)
    \/ LiveDismiss

NextDemo ==
    \/ DemoOnOpen
    \/ DemoOnError
    \/ DemoOnClose
    \/ \E ev \in FewEvents : DemoOnMessage(ev)
    \/ \E cs \in DemoTexts : DemoSetInput(cs)
    \/ \E picked \in DemoPicks : Len(stagedFiles) < MaxDemoStaged /\ stageFiles(picked)
    \/ \E i \in 0..4 : removeStaged(i)
    \/ Len(messages) < MaxMessages /\ DemoHandleSend
    \/ \E k \in 1..MaxQuick :
          /\ k <= Len(SovereignCommands)
          /\ Len(messages) < MaxMessages
          /\ DemoQuickCommand(SovereignCommands[k])
    \/ \E i \in 1..MaxMessages, r \in 1..3 : DemoReplyTimer(i, r)
    \/ DemoDismiss

Next == Tick \/ NextLive \/ NextDemo

Spec == Init /\ [][Next]_vars

-----------------------------------------------------------------------------
(* The demo provider answering sends, the event loop running every pending *)
(* timer callback.                                                         *)
InitReply == Init /\ build = "demo"

\* The frames the server sends in it.
ReplyEvents == { Event("object", BareMountFrame) }

NextReply ==
    \/ DemoOnOpen
    \/ DemoOnClose
    \/ \E cs \in DemoTexts : DemoSetInput(cs)
    \/ \E picked \in DemoPicks : Len(stagedFiles) < MaxDemoStaged /\ stageFiles(picked)
    \/ Len(messages) < MaxMessages /\ DemoHandleSend
    \/ \E k \in 1..MaxQuick :
          /\ k <= Len(SovereignCommands)
          /\ Len(messages) < MaxMessages
          /\ DemoQuickCommand(SovereignCommands[k])
    \/ \E i \in 1..MaxMessages, r \in 1..3 : DemoReplyTimer(i, r)
    \/ \E ev \in ReplyEvents : DemoOnMessage(ev)
    \/ Len(messages) + Len(anomalyTimers) < MaxMessages /\ ApproveClick
    \/ DemoAnomalyTimer(1)

\* The scheduling of the event loop: a pending timer callback runs.
FairSpecReply ==
    /\ InitReply /\ [][NextReply]_vars
    /\ WF_vars(\E i \in 1..MaxMessages, r \in 1..3 : DemoReplyTimer(i, r))

-----------------------------------------------------------------------------
(* The demo provider staging files.                                        *)
StagingFiles == {Photo, Invoice}

StagingPicks == UNION { [1..n -> StagingFiles] : n \in 1..MaxPick }

InitStaging == Init /\ build = "demo"

NextStaging ==
    \/ \E picked \in StagingPicks : stageFiles(picked)
    \/ \E i \in 0..4 : removeStaged(i)
    \/ Len(messages) < MaxSideMessages /\ DemoHandleSend
    \/ \E i \in 1..MaxSideMessages, r \in 1..3 : DemoReplyTimer(i, r)

SpecStaging == InitStaging /\ [][NextStaging]_vars

-----------------------------------------------------------------------------
\* The number of entries of the transcript msgs created at site.
RECURSIVE CountSite(_, _)
CountSite(msgs, site) ==
    IF msgs = <<>> THEN 0
    ELSE (IF Head(msgs).site = site THEN 1 ELSE 0) + CountSite(Tail(msgs), site)

\* The handler that ran last was a send of the demo provider.
DemoSendRan == build = "demo" /\ fx.op \in {"handleSend", "quickCommand"}

\* The frame handled last made the demo provider mount its plate id.
DemoMountedFrame ==
    /\ build = "demo" /\ HandledMountFrame
    /\ Truthy(fx.ev.data["plate_id"])
    /\ plate = <<fx.ev.data["plate_id"]>>

\* C4: no plate-mount frame affects the active plate without having gone
\* through the validator: the active plate is absent, or a frame that passed
\* both validation phases, or a record flagged corrupt that carries a
\* validation error.
C4_Gatekept ==
    /\ (build = "validated" /\ latestPlate # <<>>) =>
          \/ /\ ~latestPlate[1].is_corrupt
             /\ StructurallyValid(latestPlate[1].data)
             /\ SemanticallyValid(latestPlate[1].data)
          \/ /\ latestPlate[1].is_corrupt
             /\ latestPlate[1].validation_error # ""
    /\ DemoMountedFrame =>
          (StructurallyValid(fx.ev.data) /\ SemanticallyValid(fx.ev.data))

\* C7: while a simulated-reply timer is pending every further send call is
\* rejected (it appends nothing, starts no timer, transmits nothing), and at
\* no point is more than one simulated-reply timer pending.
C7_OneTimer ==
    /\ [](Len(replyTimers) <= 1)
    /\ [][(Len(replyTimers) > 0 /\ DemoSendRan')
            => (/\ UNCHANGED <<messages, replyTimers, processing, input, stagedFiles>>
                /\ fx'.sent = <<>>)]_vars

\* A send of typed text was rejected while a timer was pending: the text is
\* still in the input buffer.
C7_Witness ==
    /\ DemoSendRan /\ fx.op = "handleSend"
    /\ Len(replyTimers) = 1 /\ processing
    /\ Trim(input) # <<>>

\* C8: every accepted send is eventually followed by exactly one bot reply,
\* appended after that send's human message, and the processing indicator is
\* cleared at that moment; the processing indicator never stays true forever.
C8_ReplyFollows ==
    /\ processing ~> ~processing
    /\ [](build = "demo" =>
            /\ CountSite(messages, "reply") + Len(replyTimers) = CountSite(messages, "human")
            /\ processing <=> (Len(replyTimers) > 0)
            /\ \A n \in 1..Len(messages) :
                  CountSite(SubSeq(messages, 1, n), "reply") <= CountSite(SubSeq(messages, 1, n), "human"))
    /\ [][(build = "demo" /\ CountSite(messages', "reply") # CountSite(messages, "reply"))
            => (/\ processing /\ ~processing'
                /\ Len(messages') = Len(messages) + 1
                /\ messages'[Len(messages')].isBot
                /\ messages'[Len(messages')].site = "reply"
                /\ SubSeq(messages', 1, Len(messages)) = messages)]_vars

\* The reply to an accepted send has been appended after its human message
\* and the processing indicator is clear.
C8_Witness ==
    /\ build = "demo" /\ fx.op = "replyTimer"
    /\ Len(messages) = 3
    /\ ~messages[2].isBot /\ messages[2].site = "human"
    /\ messages[3].isBot /\ messages[3].site = "reply"
    /\ ~processing /\ replyTimers = <<>>

\* C9: a send invoked with an empty (or blank) text buffer and no staged
\* file is a no-op: the transcript, the processing indicator, the buffer and
\* the staged files are unchanged, no timer starts, nothing is transmitted.
C9_EmptySendNoOp ==
    /\ [][(build = "demo" /\ fx'.op = "handleSend" /\ Trim(input) = <<>> /\ stagedFiles = <<>>)
            => (/\ UNCHANGED <<messages, processing, input, stagedFiles, replyTimers, plate>>
                /\ Len(messages') = Len(messages)
                /\ (~processing => ~processing')
                /\ fx'.sent = <<>>)]_vars
    /\ [][(build = "validated" /\ fx'.op = "handleSend" /\ Trim(liveInput) = <<>>)
            => (/\ UNCHANGED <<liveMessages, liveInput>>
                /\ fx'.sent = <<>>)]_vars

\* A send with a blank buffer and no staged file was invoked while nothing
\* was in flight: the transcript still holds the greeting only.
C9_Witness ==
    /\ build = "demo" /\ fx.op = "handleSend"
    /\ Trim(input) = <<>> /\ stagedFiles = <<>>
    /\ ~processing /\ Len(messages) = 1 /\ fx.sent = <<>>

\* The first n elements of seq (all of them if it has fewer).
FirstOf(seq, n) == [i \in 1..(IF Len(seq) < n THEN Len(seq) ELSE n) |-> seq[i]]

\* C10: the staged-file list never holds more than 5 files; a stageFiles call
\* leaves exactly the first 5 of the already staged files followed by the
\* newly added ones, in order.
C10_AtMostFive ==
    /\ [](Len(stagedFiles) <= 5)
    /\ [][(fx'.op = "stageFiles" /\ fx' # fx)
            => stagedFiles' = FirstOf(stagedFiles \o fx'.picked, 5)]_vars

\* Two files were added to four staged ones: the first of the two is the
\* fifth staged file, the second was dropped.
C10_Witness ==
    /\ fx.op = "stageFiles" /\ Len(fx.picked) = 2
    /\ fx.picked[1] # fx.picked[2]
    /\ Len(stagedFiles) = 5
    /\ stagedFiles[5] = fx.picked[1]
    /\ stagedFiles[4] # fx.picked[1]

-----------------------------------------------------------------------------
\* The handler that runs in this step is one that calls sendMessage.
SendStep(b) == build = b /\ fx'.op \in {"handleSend", "quickCommand"}

\* The last entry of a transcript.
Last(msgs) == msgs[Len(msgs)]

-----------------------------------------------------------------------------
\* The wsState the mounted provider hands to its consumers.
ExposedWsState ==
    IF build = "validated"
    THEN (IF isConnected THEN "LIVE" ELSE "DISCONNECTED")
    ELSE wsState

\* C12: the exposed connectivity state is live once the socket has opened,
\* and disconnected once a close or an error event has been handled.
C12_ConnectivityState ==
    /\ socket = "OPEN" => ExposedWsState = "LIVE"
    /\ socket \in {"CLOSING", "CLOSED"} => ExposedWsState = "DISCONNECTED"

-----------------------------------------------------------------------------
\* The frame handled in this step is not decodable JSON.
UndecodableStep == fx'.op = "onmessage" /\ fx'.ev.kind = "garbage"

\* C13: a frame that is not decodable JSON changes no orchestrator state
\* (active plate, active skin, transcript, connectivity state, processing
\* indicator), and the frame that arrives next is handled as usual: a valid
\* mount frame is mounted by the validated provider, a frame with a plate id
\* by the demo provider.
C13_UndecodableFrameIgnored ==
    [][/\ UndecodableStep =>
            UNCHANGED <<activeSkin, latestPlate, liveMessages, isConnected, liveInput,
                        messages, input, plate, processing, wsState, stagedFiles,
                        replyTimers, anomalyTimers, socket>>
       /\ (fx.op = "onmessage" /\ fx.ev.kind = "garbage" /\ fx'.op = "onmessage"
              /\ fx'.ev.kind = "object" /\ IsStr(fx'.ev.data["type"], "MOUNT_PLATE")) =>
            /\ (build = "validated" /\ StructurallyValid(fx'.ev.data)
                    /\ SemanticallyValid(fx'.ev.data))
                  => latestPlate' = <<PlateRecord(fx'.ev.data, FALSE, "")>>
            /\ (build = "demo" /\ Truthy(fx'.ev.data["plate_id"]))
                  => plate' = <<fx'.ev.data["plate_id"]>>]_vars

\* An undecodable frame was handled while a plate was active and the
\* transcript held a server message: both are still there.
C13_Witness ==
    /\ build = "validated"
    /\ fx.op = "onmessage" /\ fx.ev.kind = "garbage"
    /\ Len(latestPlate) = 1 /\ ~latestPlate[1].is_corrupt
    /\ activeSkin = "FIELD_DIAGNOSTIC"
    /\ Len(liveMessages) = 2 /\ isConnected

-----------------------------------------------------------------------------
(* The validated provider with its CommandCenter: frames, mode buttons,    *)
(* plate dismissal and sends.                                              *)

\* A FINANCE_NOTE frame without principal_amount that declares SUPER_ADMIN.
SemanticDefectFrame ==
    WithField(DomainFields("FINANCE_NOTE", GenericFrame("FINANCE_NOTE", "SUPER_ADMIN", 3, FALSE)),
              "principal_amount", JUndef)

SkinEvents == FewEvents \cup { Event("object", SemanticDefectFrame) }

NextSkin ==
    \/ Tick
    \/ \E m \in Modes : SetMode(m)
    \/ LiveOnOpen
    \/ LiveOnClose
    \/ \E ev \in SkinEvents, canVibrate \in BOOLEAN :
          /\ IsChatEvent(ev) => Len(liveMessages) < MaxSideMessages
          /\ LiveOnMessage(ev, canVibrate)
    \/ \E cs \in LiveTexts : LiveSetInput(cs)
    \/ Len(liveMessages) < MaxSideMessages /\ LiveHandleSend
    \/ \E cmd \in LiveQuickCommands : Len(liveMessages) < MaxSideMessages /\ LiveQuickCommand(cmd)
    \/ LiveDismiss

SpecSkin == InitPlate /\ [][NextSkin]_vars

\* The frame handled in this step is a MOUNT_PLATE frame that passes both
\* validation phases.
ValidMountStep ==
    /\ fx'.op = "onmessage" /\ fx'.ev.kind = "object"
    /\ IsStr(fx'.ev.data["type"], "MOUNT_PLATE")
    /\ StructurallyValid(fx'.ev.data) /\ SemanticallyValid(fx'.ev.data)

\* C14: the active skin changes only in a step that handles a MOUNT_PLATE
\* frame passing validation, and then to the skin that frame declares;
\* corrupt frames, chat and system frames, plate dismissal, mode changes and
\* user sends leave it unchanged.
C14_SkinOnlyFromValidPlate ==
    [][/\ activeSkin' # activeSkin => ValidMountStep
       /\ ValidMountStep => activeSkin' = fx'.ev.data["skin"].s
       /\ (fx'.op = "onmessage" /\ ~ValidMountStep) => activeSkin' = activeSkin
       /\ fx'.op \in {"dismiss", "setMode", "handleSend", "quickCommand"}
            => activeSkin' = activeSkin]_vars

\* A frame declaring SUPER_ADMIN failed validation while FIELD_DIAGNOSTIC was
\* the active skin: its corrupt record is active, the skin is the old one.
C14_Witness ==
    /\ fx.op = "onmessage" /\ fx.ev = Event("object", SemanticDefectFrame)
    /\ CorruptRecordActive
    /\ activeSkin = "FIELD_DIAGNOSTIC"
    /\ mode = "FIELD"

-----------------------------------------------------------------------------
(* The demo provider with the collision and the anomaly plate on the       *)
(* canvas.                                                                 *)
InitCanvas == Init /\ build = "demo"

CanvasEvents == { Event("object", f) : f \in {LegacyFrame, BareMountFrame} }

\* What a user types in the reason field.
ReasonTexts == { <<>>, <<"V", "I", "P">> }

NextCanvas ==
    \/ DemoOnOpen
    \/ \E ev \in CanvasEvents : DemoOnMessage(ev)
    \/ \E m \in {"STANDARD", "FIELD"} : SetMode(m)
    \/ \E i \in 1..Len(ENTITY_OPTIONS) : SelectOption(i)
    \/ Len(messages) < MaxMessages /\ ConfirmSelection
    \/ Len(messages) + Len(anomalyTimers) < MaxSideMessages /\ ApproveClick
    \/ Len(messages) + Len(anomalyTimers) < MaxSideMessages /\ OverrideClick
    \/ \E cs \in ReasonTexts : SetOverrideText(cs)
    \/ DemoAnomalyTimer(1)
    \/ \E cs \in DemoTexts : DemoSetInput(cs)
    \/ Len(messages) < MaxSideMessages /\ DemoHandleSend
    \/ \E i \in 1..MaxSideMessages, r \in 1..3 : DemoReplyTimer(i, r)
    \/ DemoDismiss

SpecCanvas == InitCanvas /\ [][NextCanvas]_vars

\* The fixed parts of a confirmation text.
ResolvePhrases ==
    { "Collision resolved. Entity confirmed: ", " · VIN ",
      ". Workflow resumed. Identity Engine updated. What update would you like to apply?" }

\* The text names the entity label and then the identifier.
Mentions(text, entity, vin) ==
    \E pre \in ResolvePhrases, mid \in ResolvePhrases, post \in ResolvePhrases :
        text = pre \o entity \o mid \o vin \o post

\* The confirm button is pressed in this step with an option selected.
ResolveStep == build = "demo" /\ fx'.op = "confirmSelection" /\ selected # 0

\* C15: resolving a collision plate with a selected option clears the active
\* plate and appends exactly one bot entry whose text references the
\* option's entity label and VIN; no other entry is added or changed.
C15_ResolveAppendsConfirmation ==
    [][ResolveStep =>
         /\ plate' = <<>>
         /\ Len(messages') = Len(messages) + 1
         /\ SubSeq(messages', 1, Len(messages)) = messages
         /\ Last(messages').isBot
         /\ Last(messages').text.t = "string"
         /\ Mentions(Last(messages').text.s, ENTITY_OPTIONS[selected].entity,
                     ENTITY_OPTIONS[selected].vin)]_vars

\* The second option was confirmed after a human message: the plate is
\* cleared and the confirmation names FLUIDITRUCK_LLC.
C15_Witness ==
    /\ build = "demo" /\ fx.op = "confirmSelection"
    /\ plate = <<>>
    /\ Len(messages) >= 3
    /\ \E n \in 1..Len(messages) : messages[n].site = "human"
    /\ Last(messages).site = "resolve"
    /\ Last(messages).entity = JStr("FLUIDITRUCK_LLC")

\* C16: every collision resolution sends one client-to-server frame that
\* identifies the selected candidate.
C16_ResolveEmitsSelection ==
    [][ResolveStep =>
         /\ Len(fx'.sent) = 1
         /\ \E k \in DOMAIN fx'.sent[1] :
               fx'.sent[1][k] \in {ENTITY_OPTIONS[selected].vin,
                                    ENTITY_OPTIONS[selected].entity}]_vars

\* C17: an override decision is recorded only if the reason field is
\* non-empty at that moment: a click on the override button while the field
\* is empty records nothing, a click while it holds text records OVERRIDE.
C17_OverrideNeedsReason ==
    [][/\ (fx'.decision = "OVERRIDE" /\ fx' # fx) =>
            (fx'.op = "overrideClick" /\ overrideText # <<>> /\ showOverride)
       /\ (fx'.op = "overrideClick" /\ overrideText = <<>>) =>
            (fx'.decision = "" /\ UNCHANGED <<state, anomalyTimers, messages>>)
       /\ (fx'.op = "overrideClick" /\ showOverride /\ overrideText # <<>>) =>
            (/\ fx'.decision = "OVERRIDE" /\ state' = "OVERRIDE"
             /\ anomalyTimers' = Append(anomalyTimers, "OVERRIDE"))]_vars

\* The override button was clicked with the reason field shown and empty:
\* nothing was recorded.
C17_Witness ==
    /\ build = "demo" /\ fx.op = "overrideClick"
    /\ showOverride /\ overrideText = <<>>
    /\ state = "" /\ fx.decision = ""
    /\ anomalyTimers = <<>>
    /\ \A n \in 1..Len(messages) : messages[n].site # "anomaly"

-----------------------------------------------------------------------------
\* The validated provider applies a directive that passed validation in this
\* step.
FeedbackStep ==
    /\ build = "validated" /\ fx'.op = "onmessage" /\ fx' # fx
    /\ IsMountDirective(fx'.ev.data)
    /\ validatePlatePayload(fx'.ev.data["plate_id"], fx'.ev.data).success

\* C18: for every strategy object the tone path is entered exactly when
\* urgency is at least 9, whatever the vibration flag, and the haptic
\* pattern is issued, on a host that supports it, exactly when the vibration
\* flag is set, whatever the urgency.
C18_FeedbackTriggers ==
    [][FeedbackStep =>
         /\ fx'.tone <=> fx'.ev.data["urgency"].n >= 9
         /\ fx'.vibrate <=> (fx'.ev.data["vibration"] = JBool(TRUE) /\ fx'.canVibrate)]_vars

\* A directive of urgency 8 with the vibration flag set was applied on a
\* host that vibrates: the haptic pattern without the tone.
C18_Witness ==
    /\ build = "validated" /\ fx.op = "onmessage"
    /\ latestPlate # <<>> /\ ~latestPlate[1].is_corrupt
    /\ fx.ev.data["urgency"] = JNum(8)
    /\ fx.ev.data["vibration"] = JBool(TRUE)
    /\ fx.vibrate /\ ~fx.tone

-----------------------------------------------------------------------------
(* What the plate canvas shows.  A view is the component rendered and the  *)
(* texts it was given; "throws" is a render that raises an exception,      *)
(* "nothing" a render that puts no element on the canvas.                  *)
View(kind, tag, title, subtitle, action, entities) ==
    [kind |-> kind, tag |-> tag, title |-> title, subtitle |-> subtitle,
     action |-> action, entities |-> entities]

BlankView(kind) == View(kind, JUndef, JUndef, JUndef, JUndef, JUndef)

\* A value as a React child: a string or a number is text, an array of no
\* elements, a boolean, null and undefined render nothing.
Child(v) == IF v.t \in {"string", "number"} THEN v ELSE JUndef

\* id.replace(/_/g, ' ') for the plate ids in use.
ReplaceUnderscores(id) ==
    CASE id = "FINANCE_NOTE" -> "FINANCE NOTE"
      [] id = "FINANCE_CHART" -> "FINANCE CHART"
      [] id = "INVENTORY_TABLE" -> "INVENTORY TABLE"
      [] id = "TWIN_VIEW" -> "TWIN VIEW"
      [] OTHER -> id

\* FinancePlate of pages/CommandCenter.tsx: a fixed heading over a chart of
\* the constant FINANCE_DATA; the payload is not read.
FinancePlate ==
    View("FinancePlate", JStr("FINANCE"), JStr("FINANCE AGGREGATE"),
         JStr("Consolidated entity P&L · 6-week rolling"), JUndef, JUndef)

\* GenericPlate of pages/CommandCenter.tsx.  payload.plate_id.replace throws
\* a TypeError unless plate_id is a string; an object as a child throws.
GenericPlate(payload) ==
    LET tag == JOr(payload["intent"], JStr("SYSTEM"))
        subtitle == JOr(payload["target_entity"], JStr("Active Discovery"))
    IN IF \/ payload["plate_id"].t # "string"
          \/ \E v \in {tag, subtitle, payload["suggested_action"]} : v.t = "object"
       THEN BlankView("throws")
       ELSE View("GenericPlate", Child(tag),
                 JStr(ReplaceUnderscores(payload["plate_id"].s)), Child(subtitle),
                 Child(payload["suggested_action"]),
                 \* Object.entries has rows only for an object
                 IF payload["entities"].t = "object" THEN payload["entities"] ELSE JUndef)

\* renderPlate of pages/CommandCenter.tsx; is_corrupt and validation_error
\* are not read.
renderPlate(lp) ==
    IF lp = <<>> THEN BlankView("awaiting")
    ELSE IF \/ IsStr(lp[1].data["plate_id"], "FINANCE_CHART")
            \/ IsStr(lp[1].data["plate_id"], "FINANCE")
    THEN FinancePlate
    ELSE GenericPlate(lp[1].data)

\* The plate area of the CommandCenter of App.tsx: EmptyPlate without a
\* plate, else plateMap[plate] in a container, which is undefined, and
\* renders nothing, for a key the map does not have.
DemoPlateView(pl) ==
    IF pl = <<>> \/ ~Truthy(pl[1]) THEN BlankView("EmptyPlate")
    ELSE IF pl[1].t = "string" /\ pl[1].s \in plateMap THEN BlankView(pl[1].s)
    ELSE BlankView("nothing")

\* The plates a frame that passes validation can make active.
ValidPlates ==
    { <<PlateRecord(f, FALSE, "")>> :
        f \in { g \in MountFrames : validatePlatePayload(g["plate_id"], g).success } }

\* C19: whenever the active plate is a corrupt record, the rendered plate
\* view is a visible error state: rendering does not throw, the view is not
\* the empty canvas, and it differs from the view of every valid plate.
C19_CorruptPlateVisible ==
    (build = "validated" /\ latestPlate # <<>> /\ latestPlate[1].is_corrupt) =>
        /\ renderPlate(latestPlate).kind \notin {"throws", "nothing", "awaiting"}
        /\ \A valid \in ValidPlates : renderPlate(valid) # renderPlate(latestPlate)

\* The identifier of the active plate is not one the page has a component
\* for.
Unregistered ==
    IF build = "validated"
    THEN /\ latestPlate # <<>>
         /\ ~IsStr(latestPlate[1].data["plate_id"], "FINANCE_CHART")
         /\ ~IsStr(latestPlate[1].data["plate_id"], "FINANCE")
    ELSE /\ plate # <<>> /\ Truthy(plate[1])
         /\ ~(plate[1].t = "string" /\ plate[1].s \in plateMap)

\* The view of the plate area of the page in use.
PlateView == IF build = "validated" THEN renderPlate(latestPlate) ELSE DemoPlateView(plate)

\* C20: for every active plate whose identifier is not a registered plate
\* the rendered view is the generic fallback, showing the suggested-action
\* text and the entity map of the frame that mounted it; it is never
\* nothing.
C20_UnknownPlateFallback ==
    Unregistered =>
        /\ PlateView.kind = "GenericPlate"
        /\ build = "validated" =>
              LET data == latestPlate[1].data
              IN /\ data["suggested_action"].t = "string" =>
                       PlateView.action = data["suggested_action"]
                 /\ data["entities"].t = "object" =>
                       PlateView.entities = data["entities"]

-----------------------------------------------------------------------------
\* The frame carries the text of the command under one of the keys the two
\* providers use.
CarriesCommand(frame) ==
    \/ "text" \in DOMAIN frame /\ frame.text # ""
    \/ "message" \in DOMAIN frame /\ frame.message # ""

\* C21: every frame the client transmits for a user send carries both the
\* human's free-text command and the identifier of the current user.
C21_FrameCarriesUser ==
    \A i \in 1..Len(fx.sent) :
        /\ CarriesCommand(fx.sent[i])
        /\ "user_id" \in DOMAIN fx.sent[i]
        /\ fx.sent[i].user_id = UserId

-----------------------------------------------------------------------------
\* The validated provider handles a plate-mount directive in this step.
MountFlowStep ==
    /\ build = "validated" /\ fx'.op = "onmessage" /\ fx' # fx
    /\ fx'.ev.kind = "object" /\ IsMountDirective(fx'.ev.data)

\* C22: a failure while building or playing the tone, or a failure of the
\* render-error report request, never changes the outcome of the plate-mount
\* flow: a valid frame becomes the active plate with its skin applied and a
\* failed frame's corrupt record becomes the active plate, whether or not
\* the tone or the report failed.
C22_BestEffortContained ==
    [][MountFlowStep =>
         LET data == fx'.ev.data
         IN IF validatePlatePayload(data["plate_id"], data).success
            THEN /\ latestPlate' = <<PlateRecord(data, FALSE, "")>>
                 /\ activeSkin' = data["skin"].s
            ELSE /\ Len(latestPlate') = 1
                 /\ latestPlate'[1].is_corrupt
                 /\ latestPlate'[1].data = data
                 /\ activeSkin' = activeSkin]_vars

\* The tone of an urgent directive failed, and the directive's frame is the
\* active plate with its skin applied, replacing a corrupt record.
C22_Witness ==
    /\ build = "validated" /\ fx.op = "onmessage"
    /\ fx.tone /\ fx.toneFailed /\ fx.replaced
    /\ latestPlate = <<PlateRecord(fx.ev.data, FALSE, "")>>
    /\ activeSkin = "FIELD_DIAGNOSTIC" /\ fx.ev.data["skin"] = JStr("FIELD_DIAGNOSTIC")

-----------------------------------------------------------------------------
\* The transcript of the provider in use.
Transcript == IF build = "validated" THEN liveMessages ELSE messages

\* The demo provider handles a greeting frame in this step.
GreetingStep ==
    /\ build = "demo" /\ fx'.op = "onmessage" /\ fx' # fx
    /\ fx'.ev.kind = "object"
    /\ IsStr(fx'.ev.data["type"], "greeting") /\ Truthy(fx'.ev.data["text"])

\* C23: once appended, a transcript entry is never removed, reordered or
\* modified, except that a greeting frame replaces in place the text of the
\* placeholder greeting, the first entry; a greeting frame never changes the
\* transcript length or any other entry.
C23_TranscriptAppendOnly ==
    [][/\ Len(Transcript') >= Len(Transcript)
       /\ \A i \in 2..Len(Transcript) : Transcript'[i] = Transcript[i]
       /\ Transcript # <<>> =>
             \/ Transcript'[1] = Transcript[1]
             \/ /\ GreetingStep
                /\ Transcript'[1] = [Transcript[1] EXCEPT !.text = fx'.ev.data["text"]]
       /\ GreetingStep => Len(Transcript') = Len(Transcript)]_vars

\* A greeting frame arrived after a human message and its reply: the first
\* entry carries the greeting's text and the other entries are in place.
C23_Witness ==
    /\ build = "demo" /\ fx.op = "onmessage"
    /\ IsStr(fx.ev.data["type"], "greeting")
    /\ Len(messages) >= 3
    /\ messages[1].text = JStr("Welcome back") /\ messages[1].id = 0
    /\ messages[2].site = "human" /\ messages[3].site = "reply"

-----------------------------------------------------------------------------
\* C24: message identities are monotonic in transcript order: of any two
\* transcript entries the one appended later has an identity not smaller
\* than the one appended earlier.
C24_IdsMonotonic ==
    \A i \in 1..Len(Transcript), j \in 1..Len(Transcript) :
        i < j => Transcript[i].id <= Transcript[j].id

-----------------------------------------------------------------------------
\* type SkinType of the validated provider.
SkinType == {"SUPER_ADMIN", "FIELD_DIAGNOSTIC", "CLIENT_HANDSHAKE", "GHOST", "AMBIENT_RECON"}

\* C25: in every reachable state the active skin is one of SUPER_ADMIN,
\* FIELD_DIAGNOSTIC, CLIENT_HANDSHAKE, GHOST, AMBIENT_RECON, whatever skin
\* strings the server's frames declare.
C25_SkinInEnumeration == activeSkin \in SkinType

-----------------------------------------------------------------------------
\* The frame handled last has the documented push shape.
HandledPushFrame ==
    /\ fx.op = "onmessage" /\ fx.ev.kind = "object"
    /\ IsStr(fx.ev.data["action"], "MOUNT_PLATE")
    /\ Truthy(fx.ev.data["component"])

\* C26: a server frame of the documented push shape, action MOUNT_PLATE with
\* a component, makes the client mount the plate named by component.
C26_PushFrameMounts ==
    HandledPushFrame =>
        IF build = "demo"
        THEN plate = <<fx.ev.data["component"]>>
        ELSE /\ latestPlate # <<>>
             /\ latestPlate[1].data = fx.ev.data

-----------------------------------------------------------------------------
(* The Action Center: the queue of proposals waiting for a human decision. *)
(* A card is the event id getEventId gives; the backend gives every        *)
(* pending event an id of its own, and every card is taken to be in the    *)
(* selected tier.                                                          *)
MaxRequests == 3       \* fetch calls in flight, toasts shown and removals pending

AcBuilds == {"actionCenter", "actionCenterDelayed"}

\* The pending events of the backend.
ServerEvents == <<"E1", "E2">>

\* prev.filter(e => getEventId(e) !== eid)
Without(q, eid) == SelectSeq(q, LAMBDA e : e # eid)

\* The members of a sequence.
Range(q) == { q[i] : i \in 1..Len(q) }

\* A fetch call in flight: the event and "approve", "reject", or "queue".
Request(eid, kind) == [eid |-> eid, kind |-> kind]

\* The request line of a decision fetch.
Post(eid, kind) == [method |-> "POST", path |-> "/api/hitl/" \o eid \o "/" \o kind]

AcFrame == UNCHANGED <<build, mode, clock, socket, liveVars, demoVars, plateVars>>

\* fetchQueue settles: the queue is replaced by the pending events, or the
\* failure is shown as a toast; finally setLoading(false).
fetchQueueDone(i, ok) ==
    /\ build \in AcBuilds
    /\ i \in 1..Len(requests) /\ requests[i].kind = "queue"
    /\ requests' = RemoveAt(requests, i)
    /\ IF ok
       THEN /\ queue' = SelectSeq(ServerEvents, LAMBDA e : e \notin settled)
            /\ UNCHANGED toasts
       ELSE /\ toasts' = Append(toasts, "error")
            /\ UNCHANGED queue
    /\ loading' = FALSE
    /\ fx' = [Fx("fetchQueueDone") EXCEPT !.ok = ok]
    /\ UNCHANGED <<approvingId, rejectingId, removals, settled>>
    /\ AcFrame

\* The refresh button (disabled while loading): fetchQueue.
fetchQueue ==
    /\ build \in AcBuilds
    /\ ~loading
    /\ loading' = TRUE
    /\ requests' = Append(requests, Request("", "queue"))
    /\ fx' = Fx("fetchQueue")
    /\ UNCHANGED <<queue, approvingId, rejectingId, removals, toasts, settled>>
    /\ AcFrame

\* The buttons of card eid are rendered and not disabled.
CardEnabled(eid) ==
    /\ eid \in Range(queue)
    /\ ~(approvingId = eid \/ rejectingId = eid)

\* handleApprove(event) up to its await: the Approve button of card eid.
handleApprove(eid) ==
    /\ build \in AcBuilds
    /\ CardEnabled(eid)
    /\ approvingId' = eid
    /\ requests' = Append(requests, Request(eid, "approve"))
    /\ fx' = [Fx("handleApprove") EXCEPT !.eid = eid, !.sent = <<Post(eid, "approve")>>]
    /\ UNCHANGED <<queue, loading, rejectingId, removals, toasts, settled>>
    /\ AcFrame

\* handleReject(event) up to its await: the Reject button of card eid.
handleReject(eid) ==
    /\ build \in AcBuilds
    /\ CardEnabled(eid)
    /\ rejectingId' = eid
    /\ requests' = Append(requests, Request(eid, "reject"))
    /\ fx' = [Fx("handleReject") EXCEPT !.eid = eid, !.sent = <<Post(eid, "reject")>>]
    /\ UNCHANGED <<queue, loading, approvingId, removals, toasts, settled>>
    /\ AcFrame

\* The rest of a decision handler removing the card whatever the outcome
\* of the request.
DecisionDone_RemovesAlways(i, ok) ==
    /\ build \in AcBuilds
    /\ i \in 1..Len(requests) /\ requests[i].kind \in {"approve", "reject"}
    /\ LET eid == requests[i].eid
           kind == requests[i].kind
       IN /\ requests' = RemoveAt(requests, i)
          /\ queue' = Without(queue, eid)
          /\ toasts' = Append(toasts, IF ok THEN "success" ELSE "error")
          /\ settled' = IF ok THEN settled \cup {eid} ELSE settled
          /\ UNCHANGED removals
          /\ IF kind = "approve"
             THEN approvingId' = "" /\ UNCHANGED rejectingId
             ELSE rejectingId' = "" /\ UNCHANGED approvingId
          /\ fx' = [Fx(kind \o "Done") EXCEPT !.eid = eid, !.ok = ok]
    /\ UNCHANGED loading
    /\ AcFrame

\* The rest of handleApprove / handleReject after the await: request i
\* settles; ok is a response with res.ok, the other outcome a rejected fetch
\* or an error status.  On success the card is removed (after 600 ms in
\* part_004) and a success toast is added, on failure an error toast;
\* finally the id of the handler's kind is reset to null.
DecisionDone(i, ok) ==
    /\ build \in AcBuilds
    /\ i \in 1..Len(requests) /\ requests[i].kind \in {"approve", "reject"}
    /\ LET eid == requests[i].eid
           kind == requests[i].kind
       IN /\ requests' = RemoveAt(requests, i)
          /\ IF ok
             THEN /\ IF build = "actionCenterDelayed"
                     THEN removals' = Append(removals, eid) /\ UNCHANGED queue
                     ELSE queue' = Without(queue, eid) /\ UNCHANGED removals
                  /\ toasts' = Append(toasts, "success")
                  /\ settled' = settled \cup {eid}
             ELSE /\ toasts' = Append(toasts, "error")
                  /\ UNCHANGED <<queue, removals, settled>>
          /\ IF kind = "approve"
             THEN approvingId' = "" /\ UNCHANGED rejectingId
             ELSE rejectingId' = "" /\ UNCHANGED approvingId
          /\ fx' = [Fx(kind \o "Done") EXCEPT !.eid = eid, !.ok = ok]
    /\ UNCHANGED loading
    /\ AcFrame

\* The setTimeout callback of part_004: the settled card is removed.
RemovalTimer(i) ==
    /\ build = "actionCenterDelayed"
    /\ i \in 1..Len(removals)
    /\ queue' = Without(queue, removals[i])
    /\ removals' = RemoveAt(removals, i)
    /\ fx' = [Fx("removalTimer") EXCEPT !.eid = removals[i]]
    /\ UNCHANGED <<loading, approvingId, rejectingId, requests, toasts, settled>>
    /\ AcFrame

\* dismissToast(id): the close button of toast i.
dismissToast(i) ==
    /\ build \in AcBuilds
    /\ i \in 1..Len(toasts)
    /\ toasts' = RemoveAt(toasts, i)
    /\ fx' = Fx("dismissToast")
    /\ UNCHANGED <<queue, loading, approvingId, rejectingId, requests, removals, settled>>
    /\ AcFrame

\* The page after its first render: the mount effect has called fetchQueue.
InitAction ==
    /\ build \in AcBuilds
    /\ mode = "STANDARD" /\ clock = 0 /\ socket = "CONNECTING" /\ fx = NoFx
    /\ activeSkin = "SUPER_ADMIN" /\ latestPlate = <<>> /\ isConnected = FALSE
    /\ liveMessages = <<Greeting>> /\ liveInput = <<>>
    /\ messages = <<Greeting>> /\ input = <<>> /\ plate = <<>> /\ processing = FALSE
    /\ wsState = "CONNECTING" /\ stagedFiles = <<>> /\ replyTimers = <<>>
    /\ anomalyTimers = <<>>
    /\ selected = 0 /\ state = "" /\ overrideText = <<>> /\ showOverride = FALSE
    /\ queue = <<>> /\ loading = TRUE /\ approvingId = "" /\ rejectingId = ""
    /\ requests = <<Request("", "queue")>> /\ removals = <<>> /\ toasts = <<>>
    /\ settled = {}

NextAction ==
    \/ \E i \in 1..MaxRequests, ok \in BOOLEAN :
          /\ ~ok => Len(toasts) < MaxRequests
          /\ fetchQueueDone(i, ok)
    \/ Len(requests) + Len(toasts) + Len(removals) < MaxRequests /\ fetchQueue
    \/ \E eid \in Range(ServerEvents) :
          Len(requests) + Len(toasts) + Len(removals) < MaxRequests /\ handleApprove(eid)
    \/ \E eid \in Range(ServerEvents) :
          Len(requests) + Len(toasts) + Len(removals) < MaxRequests /\ handleReject(eid)
    \/ \E i \in 1..MaxRequests, ok \in BOOLEAN : DecisionDone(i, ok)
    \/ \E i \in 1..MaxRequests : RemovalTimer(i)
    \/ \E i \in 1..MaxRequests : dismissToast(i)

SpecAction == InitAction /\ [][NextAction]_vars

\* A decision request of the given kind settles in this step.
DoneStep(kind) == build \in AcBuilds /\ fx'.op = kind \o "Done" /\ fx' # fx

\* C27: clicking Approve on a proposal sends POST /api/hitl/{event_id}/approve,
\* and the proposal's card is removed from the queue if and only if that
\* request succeeds (in part_004 by the timer the success starts); when the
\* request fails the queue is left unchanged.
C27_ApproveRemovesOnSuccess ==
    [][/\ (build \in AcBuilds /\ fx'.op = "handleApprove") =>
            /\ fx'.sent = <<[method |-> "POST",
                              path |-> "/api/hitl/" \o fx'.eid \o "/approve"]>>
            /\ queue' = queue
       /\ (DoneStep("approve") /\ ~fx'.ok) =>
            (queue' = queue /\ removals' = removals)
       /\ (DoneStep("approve") /\ fx'.ok) =>
            IF build = "actionCenterDelayed"
            THEN queue' = queue /\ removals' = Append(removals, fx'.eid)
            ELSE /\ fx'.eid \notin Range(queue')
                 /\ queue' = Without(queue, fx'.eid)
       /\ (build \in AcBuilds /\ fx'.op = "removalTimer") =>
            (fx'.eid \in settled /\ queue' = Without(queue, fx'.eid))
       /\ \A e \in Range(queue) \ Range(queue') :
            \/ fx'.op = "fetchQueueDone"
            \/ fx'.op \in {"approveDone", "rejectDone"} /\ fx'.ok /\ fx'.eid = e
            \/ fx'.op = "removalTimer" /\ fx'.eid = e]_vars

\* The approval of E2 succeeded and its card is gone; the approval of E1
\* has just failed and its card is still in the queue.
C27_Witness ==
    /\ build = "actionCenter"
    /\ fx.op = "approveDone" /\ ~fx.ok /\ fx.eid = "E1"
    /\ settled = {"E2"}
    /\ queue = <<"E1">>

\* The decision requests in flight for an event.
InFlight(eid) ==
    { i \in 1..Len(requests) :
        requests[i].eid = eid /\ requests[i].kind \in {"approve", "reject"} }

\* C28: while an approve or reject request for a proposal is in flight, and
\* after such a request has succeeded, no further approve or reject request
\* is issued for that proposal, whatever happens to other proposals in
\* between.
C28_OneRequestPerProposal ==
    (build \in AcBuilds /\ fx.op \in {"handleApprove", "handleReject"}) =>
        /\ Cardinality(InFlight(fx.eid)) = 1
        /\ fx.eid \notin settled

-----------------------------------------------------------------------------
(* The demo CommandCenter driven by its quick-command buttons.             *)
InitQuick == Init /\ build = "demo"

NextQuick ==
    \/ DemoOnOpen
    \/ \E k \in 1..Len(SovereignCommands) :
          /\ Len(messages) <= MaxMessages
          /\ DemoQuickCommand(SovereignCommands[k])
    \/ \E i \in 1..MaxMessages, r \in 1..3 : DemoReplyTimer(i, r)
    \/ DemoDismiss
    \/ \E m \in {"STANDARD", "FIELD"} : SetMode(m)

SpecQuick == InitQuick /\ [][NextQuick]_vars

\* The plate each quick-command button is labelled with.
LabelPlate(label) ==
    CASE label = "KAMM Financials" -> "FINANCE"
      [] label = "M4 Digital Twin" -> "TWIN"
      [] label = "Anomaly Alert" -> "ANOMALY"
      [] label = "Collision" -> "COLLISION"
      [] label = "Inventory" -> "INVENTORY"
      [] label = "Dispatch" -> "LOGISTICS"

\* C29: for every quick command offered to a SOVEREIGN user, the simulated
\* reply to that command mounts the plate the command is labelled with.
C29_QuickCommandMountsLabel ==
    [][(build = "demo" /\ fx'.op = "replyTimer" /\ fx' # fx) =>
         \A k \in 1..Len(SovereignCommands), i \in 1..Len(replyTimers) :
            (/\ replyTimers[i].text = SovereignCommands[k].cmd
             /\ replyTimers[i].files = <<>>
             /\ replyTimers' = RemoveAt(replyTimers, i)) =>
                plate' = <<JStr(LabelPlate(SovereignCommands[k].label))>>]_vars

-----------------------------------------------------------------------------
\* Some staged file is no longer staged after this step.
FileLeaves ==
    /\ build = "demo"
    /\ \/ Len(stagedFiles') < Len(stagedFiles)
       \/ \E i \in 1..Len(stagedFiles) :
             i > Len(stagedFiles') \/ stagedFiles'[i] # stagedFiles[i]

\* C30: a staged file leaves the staged-file list only by the explicit
\* removal of that file or by an accepted send that attaches the staged
\* files to the human message it appends; no send, typed or quick command,
\* empties the list without its files being the attachments of that message.
C30_StagedFilesNotLost ==
    [][FileLeaves =>
         IF fx'.op \in {"handleSend", "quickCommand"}
         THEN /\ Len(messages') = Len(messages) + 1
              /\ ~Last(messages').isBot
              /\ Last(messages').attachments = stagedFiles
         ELSE \E i \in 1..Len(stagedFiles) :
                 stagedFiles' = RemoveAt(stagedFiles, i)]_vars

====
